---- MODULE Spec2Model ----
(***************************************************************************)
(* Collaborative setlist synthesis engine of miriamsimone/sconse.           *)
(*                                                                         *)
(* Part I   ChatSetlistService (services/chat_setlist_service.py) and the  *)
(*          status endpoint of api/chat_setlist.py: the preference         *)
(*          collection sessions (specifications Spec and SpecOnce).        *)
(* Part II  MultiAgentCoordinator (setlist_agents/multi_agent_coordinator  *)
(*          .py) with its three agents: the four-phase design pipeline     *)
(*          (specification SpecDesign).                                    *)
(*                                                                         *)
(* Python lists are sequences, dicts are functions or records.  In Part I  *)
(* None is the string "None" and an optional value is a sequence of at     *)
(* most one element; in Part II a dict holds the keys of its domain and    *)
(* None is the empty sequence.  Display strings (messages, usernames,      *)
(* timestamps) are left out: no operation reads them back.                 *)
(***************************************************************************)
EXTENDS Integers, Sequences, FiniteSets, TLC

VARIABLES
    active_requests,  \* ChatSetlistService.active_requests: setlist_id -> request
    group_responses,  \* ChatSetlistService.group_responses: setlist_id -> list
    synth_runs,       \* history: calls of _generate_collaborative_setlist per id
    last,             \* what the latest service/API call did and returned
    once,             \* SpecOnce: the session and the calls still to be made
    co,               \* Part II: the state of one design_setlist run
    fn                \* SpecFn: the latest application of a function of Part I

vars == <<active_requests, group_responses, synth_runs, last, once, co, fn>>

(***************************************************************************)
(* Bounds of the model                                                     *)
(***************************************************************************)
\* Largest number of preference responses stored over all sessions.
MaxResponses == 2
\* Stand-in for sys.float_info.max: int * float raises OverflowError above it.
FloatMax == 1000

SessionIds == {"s1", "s2"}
Users == {"a", "b"}
MemberLists == {<<"a">>, <<"a", "b">>}

\* Requests for a collaborative setlist (user_input of handle_setlist_request):
\* those made under Spec, and those made under SpecOnce.
RequestTexts == {"jazz 30 minutes", "jazz 9..9 minutes"}
AllRequestTexts == RequestTexts \cup {"classical recital"}
\* Preference responses (preference_text of handle_preference_response).
PreferenceTexts ==
    {"I love jazz", "start with blues",
     "avoid music jazz. not into blues. not into bebop"}

\* The duration "9..9" (400 digits) of the third request, beyond float range.
HugeDuration == FloatMax + 1

\* Preference texts given to the functions of Part I under SpecFn.
FnTexts ==
    {"", "I love jazz", "not into blues", "Not into BLUES, I love Jazz",
     "start with blues", "end with blues", "start with bebop, end with blues",
     "start with jazz", "begin with swing and finish with bebop!",
     "start with  .", "no miles davis please",
     "i love classical. avoid debussy",
     "I hate music by bach, my favorite composer is mozart",
     "expert virtuoso sax player, calm", "expert, start with blues"}
\* The records of one analysis, the target durations and the concert types
\* under SpecFn.  5 * 0.9, 30 * 0.9 and 60 * 0.9 are the exact values 4.5, 27.0
\* and 54.0.
MaxRecords == 2
FnDurations == {5, 30}
FnConcertTypes == {"jazz_concert", "classical_recital", "chamber_music"}

(***************************************************************************)
(* Helpers on sequences                                                    *)
(***************************************************************************)
Range(s) == {s[i] : i \in 1..Len(s)}

RECURSIVE SumDurations(_)
SumDurations(ps) ==
    IF ps = <<>> THEN 0 ELSE Head(ps).duration_minutes + SumDurations(Tail(ps))

RECURSIVE Concat(_)
Concat(ss) == IF ss = <<>> THEN <<>> ELSE Head(ss) \o Concat(Tail(ss))

Count(x, s) == Cardinality({i \in 1..Len(s) : s[i] = x})

\* list.remove(x): drop the first element equal to x.
RECURSIVE RemoveFirst(_, _)
RemoveFirst(s, x) ==
    IF s = <<>> THEN <<>>
    ELSE IF Head(s) = x THEN Tail(s)
    ELSE <<Head(s)>> \o RemoveFirst(Tail(s), x)

Min(a, b) == IF a <= b THEN a ELSE b

(***************************************************************************)
(* _extract_setlist_parameters and _parse_preference_text on the texts of  *)
(* the model: the values the keyword and regular-expression heuristics     *)
(* give for exactly these strings.                                         *)
(***************************************************************************)
ExtractSetlistParameters(user_input) ==
    CASE user_input = "jazz 30 minutes" ->
            [concert_type |-> "jazz_concert", duration_minutes |-> 30]
      [] user_input = "classical recital" ->
            [concert_type |-> "classical_recital", duration_minutes |-> 60]
      [] user_input = "jazz 9..9 minutes" ->
            [concert_type |-> "jazz_concert", duration_minutes |-> HugeDuration]

DefaultPreferences ==
    [favorite_genres |-> <<>>, favorite_composers |-> <<>>,
     instruments |-> <<>>, skill_level |-> "intermediate",
     avoid_genres |-> <<>>, avoid_composers |-> <<>>,
     tempo_preference |-> "None", mood_preference |-> "None",
     start_preference |-> "None", end_preference |-> "None",
     specific_genres |-> <<>>]

(***************************************************************************)
(* Strings.  The code works on Python str values: lower(), title(),        *)
(* strip(), slicing, the substring test `in` and str.find.  Positions here *)
(* are 1-based.  An operator evaluates its argument anew at every use, so  *)
(* a computed position that is used more than once is bound as the         *)
(* argument of a local function, and the loops over the positions of a     *)
(* text are recursive functions.                                           *)
(***************************************************************************)
WhiteSpace == {" ", "\t", "\n", "\r", "\f"}

\* min(numbers), for a non-empty set of positions
Least ==
    [numbers \in SUBSET Nat |->
        LET up[i \in Nat] == IF i \in numbers THEN i ELSE up[i + 1]
        IN  up[0]]
At(text, i) == SubSeq(text, i, i)

\* the two case mappings of the letters
Letters ==
    [upper |-> "ABCDEFGHIJKLMNOPQRSTUVWXYZ",
     lower |-> "abcdefghijklmnopqrstuvwxyz"]
ToLower ==
    [c \in {At(Letters.upper, i) : i \in 1..Len(Letters.upper)} |->
        At(Letters.lower,
           Least[{i \in 1..Len(Letters.upper) : At(Letters.upper, i) = c}])]
ToUpper ==
    [c \in {At(Letters.lower, i) : i \in 1..Len(Letters.lower)} |->
        At(Letters.upper,
           Least[{i \in 1..Len(Letters.lower) : At(Letters.lower, i) = c}])]

LowerChar(c) == IF c \in DOMAIN ToLower THEN ToLower[c] ELSE c
UpperChar(c) == IF c \in DOMAIN ToUpper THEN ToUpper[c] ELSE c

\* str.lower()
Lower(text) ==
    LET from[i \in 1..(Len(text) + 1)] ==
            IF i > Len(text) THEN ""
            ELSE LowerChar(At(text, i)) \o from[i + 1]
    IN  from[1]

\* str.title(): a cased character is upper-cased after an uncased one (or at
\* the start) and lower-cased after a cased one.
Title(text) ==
    LET Cased(c) == c \in DOMAIN ToLower \cup DOMAIN ToUpper
        from[i \in 1..(Len(text) + 1)] ==
            IF i > Len(text) THEN ""
            ELSE (IF i > 1 /\ Cased(At(text, i - 1))
                     THEN LowerChar(At(text, i))
                     ELSE UpperChar(At(text, i)))
                 \o from[i + 1]
    IN  from[1]

\* str.strip()
Strip(text) ==
    LET inked == {i \in 1..Len(text) : At(text, i) \notin WhiteSpace}
    IN  IF inked = {} THEN ""
        ELSE SubSeq(text, Least[inked],
                    Len(text) - Least[{Len(text) - i : i \in inked}])

\* text[i - 1:].startswith(word)
StartsAt(text, i, word) ==
    /\ i + Len(word) - 1 <= Len(text)
    /\ SubSeq(text, i, i + Len(word) - 1) = word

\* word in text
In(word, text) ==
    LET Within[w \in STRING, t \in STRING] ==
            \E i \in 1..(Len(t) + 1) : StartsAt(t, i, w)
    IN  Within[word, text]

\* any(word in text for word in words)
AnyIn(words, text) == \E k \in 1..Len(words) : In(words[k], text)

\* text.find(word) + 1, for a word that occurs in the text
Find(word, text) ==
    Least[{i \in 1..(Len(text) + 1) : StartsAt(text, i, word)}]

\* a_list[:n]
Take(a_list, n) == SubSeq(a_list, 1, Min(Len(a_list), n))

(***************************************************************************)
(* Regular expressions.  _parse_preference_text uses re.findall with four  *)
(* shapes of pattern, written here as records:                             *)
(*   "capture"  (?:t1|t2).*?(?:m1|m2).*?([a-zA-Z\s]+)   (the m-group may   *)
(*              be absent: middles = <<>>)                                 *)
(*   "space"    t1\s+([a-zA-Z\s]+)                                         *)
(*   "literal"  (?:t1|t2|...)                      no group: whole match   *)
(*   "span"     (?:t1|t2).*?(?:m1|m2)              no group: whole match   *)
(* `.` matches anything but a newline.  A match is <<[to, value]>>, with   *)
(* the position of its last character and the group (or the whole match);  *)
(* no match is <<>>.                                                       *)
(***************************************************************************)
\* [a-zA-Z\s]
InClass == DOMAIN ToLower \cup DOMAIN ToUpper \cup WhiteSpace

\* the last position of the longest run of characters of a class starting
\* at i; i - 1 when the character at i is not in the class
RunEnd(class, text, i) ==
    Least[{j \in i..(Len(text) + 1) :
              j > Len(text) \/ At(text, j) \notin class}] - 1

\* .*? from position p up to (not including) q
Dots(text, p, q) == \A j \in p..(q - 1) : At(text, j) # "\n"

\* .*?([a-zA-Z\s]+) from p: the lazy prefix stops at the first class
\* character it can reach and the greedy group takes the whole run
LazyGroup(text, p) ==
    LET Group[r \in Nat, e \in Nat] ==
            <<[to |-> e, value |-> SubSeq(text, r, e)]>>
        From[r \in Nat] == Group[r, RunEnd(InClass, text, r)]
        First[starts \in SUBSET Nat] ==
            IF starts = {} THEN <<>> ELSE From[Least[starts]]
    IN  First[{r \in p..Len(text) : At(text, r) \in InClass /\ Dots(text, p, r)}]

\* no match <<>> or one match <<[to, value]>>, and the first match of a list
\* of attempts: alternatives and positions are tried in order
Matches == Seq([to : Nat, value : STRING])
FirstNonEmpty ==
    [attempts \in Seq(Matches) |->
        LET matching == {k \in 1..Len(attempts) : attempts[k] # <<>>}
        IN  IF matching = {} THEN <<>> ELSE attempts[Least[matching]]]

\* (?:m1|m2) at q followed by the rest of the pattern
MiddleAt(kind, middles, text, q) ==
    FirstNonEmpty[[k \in 1..Len(middles) |->
        IF ~StartsAt(text, q, middles[k]) THEN <<>>
        ELSE IF kind = "span"
                THEN <<[to |-> q + Len(middles[k]) - 1, value |-> ""]>>
                ELSE LazyGroup(text, q + Len(middles[k]))]]

\* .*?(?:m1|m2)... from p: the lazy prefix grows one character at a time
LazyMiddle(kind, middles, text, p) ==
    FirstNonEmpty[[d \in 1..(Len(text) + 1 - p) |->
        IF Dots(text, p, p + d - 1)
           THEN MiddleAt(kind, middles, text, p + d - 1) ELSE <<>>]]

\* t\s+([a-zA-Z\s]+) from p, the position after t: \s+ takes the white
\* space and gives one character back when no letter follows it
SpaceGroup(text, p) ==
    LET Group[w \in Nat, e \in Nat] ==
            IF w < p THEN <<>>
            ELSE IF e > w THEN <<[to |-> e, value |-> SubSeq(text, w + 1, e)]>>
            ELSE IF w > p THEN <<[to |-> w, value |-> At(text, w)]>>
            ELSE <<>>
    IN  Group[RunEnd(WhiteSpace, text, p), RunEnd(InClass, text, p)]

\* what follows the trigger of a pattern, from position p
After(pattern, text, p) ==
    IF pattern.kind = "literal" THEN <<[to |-> p - 1, value |-> ""]>>
    ELSE IF pattern.kind = "space" THEN SpaceGroup(text, p)
    ELSE IF pattern.middles # <<>>
         THEN LazyMiddle(pattern.kind, pattern.middles, text, p)
    ELSE LazyGroup(text, p)

\* the pattern at position i; a pattern without a group gives the whole match
MatchAt(pattern, text, i) ==
    LET Whole[rest \in Matches] ==
            IF rest = <<>> \/ pattern.kind \in {"capture", "space"} THEN rest
            ELSE <<[to |-> rest[1].to, value |-> SubSeq(text, i, rest[1].to)]>>
    IN  Whole[FirstNonEmpty[[k \in 1..Len(pattern.triggers) |->
                  IF StartsAt(text, i, pattern.triggers[k])
                     THEN After(pattern, text, i + Len(pattern.triggers[k]))
                     ELSE <<>>]]]

\* re.findall(pattern, text): the group (or the whole match) of each of the
\* non-overlapping matches, leftmost first
FindAll(pattern, text) ==
    LET Walk[at \in Seq(Matches)] ==
            LET from[i \in Nat] ==
                    LET Found[j \in Nat] ==
                            <<at[j][1].value>> \o from[at[j][1].to + 1]
                        First[starts \in SUBSET Nat] ==
                            IF starts = {} THEN <<>> ELSE Found[Least[starts]]
                    IN  First[{j \in i..Len(at) : at[j] # <<>>}]
            IN  from[1]
    IN  Walk[[j \in 1..Len(text) |-> MatchAt(pattern, text, j)]]

Pattern(kind, triggers, middles) ==
    [kind |-> kind, triggers |-> triggers, middles |-> middles]

\* [key for key, keywords in table.items() if any(k in text for k in keywords)]
KeysMentioned(table, text) ==
    LET mentioned == SelectSeq(table, LAMBDA entry : AnyIn(entry[2], text))
    IN  [k \in 1..Len(mentioned) |-> mentioned[k][1]]

GenreKeywords ==
    << <<"jazz", <<"jazz", "swing", "bebop", "fusion">> >>,
       <<"blues", <<"blues", "bluesy">> >>,
       <<"classical", <<"classical", "baroque", "romantic", "chamber">> >>,
       <<"rock", <<"rock", "pop", "alternative">> >>,
       <<"folk", <<"folk", "acoustic", "traditional">> >>,
       <<"country", <<"country", "bluegrass">> >>,
       <<"electronic", <<"electronic", "edm", "techno">> >>,
       <<"latin", <<"latin", "salsa", "bossa nova", "samba">> >> >>

InstrumentKeywords ==
    << <<"piano", <<"piano", "keyboard", "keys">> >>,
       <<"guitar", <<"guitar", "acoustic guitar", "electric guitar">> >>,
       <<"violin", <<"violin", "fiddle">> >>,
       <<"cello", <<"cello">> >>,
       <<"viola", <<"viola">> >>,
       <<"flute", <<"flute">> >>,
       <<"clarinet", <<"clarinet">> >>,
       <<"saxophone", <<"saxophone", "sax", "alto sax", "tenor sax">> >>,
       <<"trumpet", <<"trumpet">> >>,
       <<"drums", <<"drums", "drum set", "percussion">> >>,
       <<"bass", <<"bass", "bass guitar", "upright bass">> >>,
       <<"voice", <<"voice", "vocal", "singer", "singing">> >> >>

composer_names ==
    <<"miles davis", "john coltrane", "beethoven", "mozart", "bach",
      "chopin", "debussy", "herbie hancock", "thelonious monk">>

ComposerPatterns ==
    << Pattern("capture", <<"favorite", "love", "like">>,
               <<"composer", "artist", "musician">>),
       Pattern("capture", <<"composer", "artist", "musician">>, <<>>),
       Pattern("literal",
               <<"miles davis", "john coltrane", "beethoven", "mozart",
                 "bach", "chopin", "debussy">>, <<>>) >>

AvoidPatterns ==
    << Pattern("capture", <<"avoid", "don't like", "hate", "dislike">>,
               <<"genre", "music", "style">>),
       Pattern("capture", <<"not into", "not a fan of">>, <<>>) >>

AvoidComposerPatterns ==
    << Pattern("capture", <<"avoid", "don't like", "hate", "dislike">>,
               <<"composer", "artist", "musician">>),
       Pattern("capture", <<"not into", "not a fan of">>,
               <<"composer", "artist", "musician">>),
       Pattern("span", <<"no", "avoid", "don't want">>, composer_names) >>

negative_words == <<"no", "avoid", "don't", "hate", "dislike", "not">>

StartPatterns ==
    << Pattern("space", <<"start with">>, <<>>),
       Pattern("space", <<"begin with">>, <<>>),
       Pattern("space", <<"open with">>, <<>>),
       Pattern("capture", <<"first">>, <<>>) >>

EndPatterns ==
    << Pattern("space", <<"end with">>, <<>>),
       Pattern("space", <<"finish with">>, <<>>),
       Pattern("space", <<"close with">>, <<>>),
       Pattern("capture", <<"last">>, <<>>) >>

SpecificGenreKeywords ==
    <<"bebop", "blues", "ballad", "swing", "fusion", "hard bop",
      "cool jazz", "free jazz">>

\* the extend loop over a list of patterns, each adding
\* [match.strip() for match in matches if len(match.strip()) > 2];
\* found[k] is re.findall of the k-th pattern
Extracted(found) ==
    LET Stripped(matches) ==
            SelectSeq([k \in 1..Len(matches) |-> Strip(matches[k])],
                      LAMBDA match : Len(match) > 2)
    IN  Concat([k \in 1..Len(found) |-> Stripped(found[k])])

\* the characters around the first mention of a composer
ContextWindow == 20

Context(composer, text) ==
    LET Around[composer_pos \in Nat] ==
            SubSeq(text,
                   IF composer_pos > ContextWindow
                      THEN composer_pos - ContextWindow ELSE 1,
                   Min(Len(text),
                       composer_pos - 1 + Len(composer) + ContextWindow))
    IN  Around[Find(composer, text)]

NegatedComposers(names, text) ==
    LET negated == SelectSeq(names,
                       LAMBDA composer :
                           /\ In(composer, text)
                           /\ AnyIn(negative_words, Context(composer, text)))
    IN  [k \in 1..Len(negated) |-> Title(negated[k])]

\* the first pattern with a match gives the stripped first match
FirstMatch(found) ==
    LET matching == {k \in 1..Len(found) : found[k] # <<>>}
    IN  IF matching = {} THEN "None" ELSE Strip(found[Least[matching]][1])

SkillLevelOrNone(text) ==
    IF AnyIn(<<"beginner", "starting", "new to", "learning">>, text)
       THEN "beginner"
    ELSE IF AnyIn(<<"advanced", "expert", "professional", "experienced">>, text)
       THEN "advanced"
    ELSE "None"
SkillLevel(text) ==
    IF AnyIn(<<"beginner", "starting", "new to", "learning">>, text)
       THEN "beginner"
    ELSE IF AnyIn(<<"advanced", "expert", "professional", "experienced">>, text)
       THEN "advanced"
    ELSE IF AnyIn(<<"expert", "master", "virtuoso">>, text)
       THEN "professional"
    ELSE "intermediate"

TempoPreference(text) ==
    IF AnyIn(<<"fast", "upbeat", "energetic", "quick">>, text) THEN "fast"
    ELSE IF AnyIn(<<"slow", "relaxed", "calm", "gentle">>, text) THEN "slow"
    ELSE IF AnyIn(<<"moderate", "medium", "balanced">>, text) THEN "moderate"
    ELSE "None"

MoodPreference(text) ==
    IF AnyIn(<<"energetic", "exciting", "dynamic", "powerful">>, text)
       THEN "energetic"
    ELSE IF AnyIn(<<"relaxed", "calm", "peaceful", "serene">>, text)
       THEN "relaxed"
    ELSE IF AnyIn(<<"dramatic", "intense", "emotional", "passionate">>, text)
       THEN "dramatic"
    ELSE IF AnyIn(<<"happy", "cheerful", "uplifting", "joyful">>, text)
       THEN "happy"
    ELSE "None"

\* The body of _parse_preference_text after text_lower = preference_text.lower();
\* None is "None".  found[l][k] is re.findall of the k-th pattern of the
\* l-th list of patterns.
ParseLowered(text_lower) ==
    LET lists == <<ComposerPatterns, AvoidPatterns, AvoidComposerPatterns,
                   StartPatterns, EndPatterns>>
        Record[found \in Seq(Seq(Seq(STRING)))] ==
            [favorite_genres |-> KeysMentioned(GenreKeywords, text_lower),
             favorite_composers |-> Take(Extracted(found[1]), 5),
             instruments |-> KeysMentioned(InstrumentKeywords, text_lower),
             skill_level |-> SkillLevel(text_lower),
             avoid_genres |-> Take(Extracted(found[2]), 3),
             avoid_composers |->
                 Take(Extracted(found[3])
                      \o NegatedComposers(composer_names, text_lower), 3),
             tempo_preference |-> TempoPreference(text_lower),
             mood_preference |-> MoodPreference(text_lower),
             start_preference |-> FirstMatch(found[4]),
             end_preference |-> FirstMatch(found[5]),
             specific_genres |->
                 SelectSeq(SpecificGenreKeywords,
                           LAMBDA genre : In(genre, text_lower))]
    IN  Record[[l \in 1..Len(lists) |->
                  [k \in 1..Len(lists[l]) |-> FindAll(lists[l][k], text_lower)]]]

\* _parse_preference_text
ParseText(preference_text) ==
    LET Parsed[text_lower \in STRING] == ParseLowered(text_lower)
    IN  Parsed[Lower(preference_text)]

\* The records of _parse_preference_text for the texts of the model: the
\* values of ParseText, written out.
ParsePreferenceText(preference_text) ==
    CASE preference_text = "I love jazz" ->
            [DefaultPreferences EXCEPT
                !.favorite_genres = <<"jazz">>]
      [] preference_text = "start with blues" ->
            [DefaultPreferences EXCEPT
                !.favorite_genres = <<"blues">>,
                !.start_preference = "blues",
                !.specific_genres = <<"blues">>]
      [] preference_text = "avoid music jazz. not into blues. not into bebop" ->
            [DefaultPreferences EXCEPT
                !.favorite_genres = <<"jazz", "blues">>,
                !.avoid_genres = <<"jazz", "blues", "bebop">>,
                !.specific_genres = <<"bebop", "blues">>]
      [] preference_text = "" ->
            DefaultPreferences
      [] preference_text = "not into blues" ->
            [DefaultPreferences EXCEPT
                !.favorite_genres = <<"blues">>,
                !.avoid_genres = <<"blues">>,
                !.specific_genres = <<"blues">>]
      [] preference_text = "Not into BLUES, I love Jazz" ->
            [DefaultPreferences EXCEPT
                !.favorite_genres = <<"jazz", "blues">>,
                !.avoid_genres = <<"blues">>,
                !.specific_genres = <<"blues">>]
      [] preference_text = "end with blues" ->
            [DefaultPreferences EXCEPT
                !.favorite_genres = <<"blues">>,
                !.end_preference = "blues",
                !.specific_genres = <<"blues">>]
      [] preference_text = "start with bebop, end with blues" ->
            [DefaultPreferences EXCEPT
                !.favorite_genres = <<"jazz", "blues">>,
                !.start_preference = "bebop",
                !.end_preference = "blues",
                !.specific_genres = <<"bebop", "blues">>]
      [] preference_text = "start with jazz" ->
            [DefaultPreferences EXCEPT
                !.favorite_genres = <<"jazz">>,
                !.start_preference = "jazz"]
      [] preference_text = "begin with swing and finish with bebop!" ->
            [DefaultPreferences EXCEPT
                !.favorite_genres = <<"jazz">>,
                !.start_preference = "swing and finish with bebop",
                !.end_preference = "bebop",
                !.specific_genres = <<"bebop", "swing">>]
      [] preference_text = "start with  ." ->
            [DefaultPreferences EXCEPT
                !.start_preference = ""]
      [] preference_text = "no miles davis please" ->
            [DefaultPreferences EXCEPT
                !.favorite_composers = <<"miles davis">>,
                !.avoid_composers = <<"no miles davis", "Miles Davis">>]
      [] preference_text = "i love classical. avoid debussy" ->
            [DefaultPreferences EXCEPT
                !.favorite_genres = <<"classical">>,
                !.favorite_composers = <<"debussy">>,
                !.avoid_composers = <<"avoid debussy", "Debussy">>]
      [] preference_text = "I hate music by bach, my favorite composer is mozart" ->
            [DefaultPreferences EXCEPT
                !.favorite_composers = <<"is mozart", "is mozart", "bach", "mozart">>,
                !.avoid_genres = <<"by bach">>,
                !.avoid_composers = <<"is mozart", "Bach">>]
      [] preference_text = "expert virtuoso sax player, calm" ->
            [DefaultPreferences EXCEPT
                !.instruments = <<"saxophone">>,
                !.skill_level = "advanced",
                !.tempo_preference = "slow",
                !.mood_preference = "relaxed"]
      [] preference_text = "expert, start with blues" ->
            [DefaultPreferences EXCEPT
                !.favorite_genres = <<"blues">>,
                !.skill_level = "advanced",
                !.start_preference = "blues",
                !.specific_genres = <<"blues">>]

(***************************************************************************)
(* The static catalogs: _generate_jazz_setlist, _generate_classical_setlist *)
(* and _generate_chamber_setlist return these literal lists.               *)
(***************************************************************************)
Piece(title, composer, duration_minutes, genre, style, difficulty) ==
    [title |-> title, composer |-> composer,
     duration_minutes |-> duration_minutes, genre |-> genre,
     style |-> style, difficulty |-> difficulty]

JazzPieces ==
    << Piece("Blue in Green", "Miles Davis", 5, "jazz", "ballad", "intermediate"),
       Piece("Autumn Leaves", "Joseph Kosma", 4, "jazz", "ballad", "intermediate"),
       Piece("All the Things You Are", "Jerome Kern", 6, "jazz", "ballad", "advanced"),
       Piece("Body and Soul", "Johnny Green", 5, "jazz", "ballad", "intermediate"),
       Piece("Round Midnight", "Thelonious Monk", 6, "jazz", "ballad", "advanced"),
       Piece("Blue Bossa", "Kenny Dorham", 4, "jazz", "medium", "intermediate"),
       Piece("Cantaloupe Island", "Herbie Hancock", 5, "jazz", "medium", "intermediate"),
       Piece("Song for My Father", "Horace Silver", 4, "jazz", "medium", "intermediate"),
       Piece("Maiden Voyage", "Herbie Hancock", 6, "jazz", "medium", "advanced"),
       Piece("All Blues", "Miles Davis", 5, "jazz", "up-tempo", "intermediate"),
       Piece("So What", "Miles Davis", 6, "jazz", "up-tempo", "advanced"),
       Piece("Giant Steps", "John Coltrane", 5, "jazz", "up-tempo", "advanced"),
       Piece("Take Five", "Paul Desmond", 5, "jazz", "up-tempo", "intermediate"),
       Piece("Blue Monk", "Thelonious Monk", 4, "blues", "medium", "intermediate"),
       Piece("Straight No Chaser", "Thelonious Monk", 5, "blues", "up-tempo", "intermediate"),
       Piece("Blue Train", "John Coltrane", 6, "blues", "up-tempo", "advanced"),
       Piece("Confirmation", "Charlie Parker", 4, "bebop", "up-tempo", "advanced"),
       Piece("Donna Lee", "Charlie Parker", 5, "bebop", "up-tempo", "advanced"),
       Piece("Anthropology", "Charlie Parker", 4, "bebop", "up-tempo", "advanced"),
       Piece("Hot House", "Tadd Dameron", 5, "bebop", "up-tempo", "advanced"),
       Piece("Ornithology", "Charlie Parker", 4, "bebop", "up-tempo", "advanced"),
       Piece("Tenor Madness", "Sonny Rollins", 5, "blues", "medium", "intermediate"),
       Piece("Blues Walk", "Lou Donaldson", 4, "blues", "medium", "intermediate"),
       Piece("Blues for Alice", "Charlie Parker", 5, "blues", "medium", "advanced") >>

ClassicalPieces ==
    << Piece("Prelude and Fugue in C Major", "J.S. Bach", 6, "classical", "baroque", "advanced"),
       Piece("Air on the G String", "J.S. Bach", 4, "classical", "baroque", "intermediate"),
       Piece("Sonata in C Major", "Mozart", 8, "classical", "classical", "advanced"),
       Piece("Fur Elise", "Beethoven", 3, "classical", "classical", "intermediate"),
       Piece("Nocturne in E-flat Major", "Chopin", 5, "classical", "romantic", "advanced"),
       Piece("Clair de Lune", "Debussy", 5, "classical", "romantic", "advanced") >>

ChamberPieces ==
    << Piece("String Quartet No. 14", "Mozart", 8, "chamber", "classical", "advanced"),
       Piece("Piano Trio No. 1", "Brahms", 10, "chamber", "romantic", "advanced"),
       Piece("Wind Quintet", "Nielsen", 6, "chamber", "modern", "advanced") >>


\* needle.lower() in hay.lower(), tabulated: the needles are the terms of the
\* records of the model, the hays are the genres and composers of the catalogs.
LowerIn ==
    [needle \in
        UNION {Range(preferences.favorite_genres)
               \cup Range(preferences.favorite_composers)
               \cup Range(preferences.avoid_genres)
               \cup Range(preferences.avoid_composers)
               \cup {preferences.start_preference, preferences.end_preference} :
                  preferences \in {ParsePreferenceText(text) :
                                      text \in PreferenceTexts \cup FnTexts}},
     hay \in
        UNION {{piece.genre, piece.composer} :
                  piece \in Range(JazzPieces \o ClassicalPieces \o ChamberPieces)}
     |-> In(Lower(needle), Lower(hay))]

InLower(needle, hay) == LowerIn[needle, hay]

(***************************************************************************)
(* _analyze_group_preferences                                              *)
(***************************************************************************)
\* Counter(xs).items() keeps the keys in order of first occurrence.
RECURSIVE FirstOccurrences(_)
FirstOccurrences(s) ==
    IF s = <<>> THEN <<>>
    ELSE LET r == FirstOccurrences(SubSeq(s, 1, Len(s) - 1))
             x == s[Len(s)]
         IN IF x \in Range(r) THEN r ELSE Append(r, x)

MoreThanOnce(s) == SelectSeq(FirstOccurrences(s), LAMBDA x : Count(x, s) > 1)

\* if prefs.get(field): neither None nor the empty string is collected.
RECURSIVE Hints(_, _)
Hints(responses, field) ==
    IF responses = <<>> THEN <<>>
    ELSE LET h == Head(responses).preferences[field]
         IN (IF h = "None" \/ h = "" THEN <<>> ELSE <<h>>)
            \o Hints(Tail(responses), field)

ListsOf(responses, field) ==
    Concat([i \in 1..Len(responses) |-> responses[i].preferences[field]])

AnalyzeGroupPreferences(responses) ==
    LET all_genres    == ListsOf(responses, "favorite_genres")
        all_composers == ListsOf(responses, "favorite_composers")
        common_genres    == MoreThanOnce(all_genres)
        common_composers == MoreThanOnce(all_composers)
    IN [common_genres    |-> common_genres,
        common_composers |-> common_composers,
        all_genres       |-> Range(all_genres),
        all_composers    |-> Range(all_composers),
        instruments      |-> Range(ListsOf(responses, "instruments")),
        skill_levels     |->
            {responses[i].preferences.skill_level : i \in 1..Len(responses)},
        avoid_genres     |-> Range(ListsOf(responses, "avoid_genres")),
        avoid_composers  |-> Range(ListsOf(responses, "avoid_composers")),
        start_preferences |-> Hints(responses, "start_preference"),
        end_preferences   |-> Hints(responses, "end_preference"),
        specific_genres  |-> Range(ListsOf(responses, "specific_genres")),
        \* min(0.9, 0.5 + 0.1 * |common genres| + 0.1 * |common composers|), in tenths
        compatibility_score |->
            Min(9, 5 + Len(common_genres) + Len(common_composers)),
        group_size       |-> Len(responses)]

(***************************************************************************)
(* _filter_pieces_by_preferences                                           *)
(***************************************************************************)
\* A filter in which a common preference outvotes an avoid entry.
AvoidedUnlessCommon(piece, ga) ==
    \/ /\ \E g \in ga.avoid_genres : InLower(g, piece.genre)
       /\ ~\E g \in Range(ga.common_genres) : InLower(g, piece.genre)
    \/ /\ \E c \in ga.avoid_composers : InLower(c, piece.composer)
       /\ ~\E c \in Range(ga.common_composers) : InLower(c, piece.composer)

Avoided(piece, ga) ==
    \/ \E g \in ga.avoid_genres : InLower(g, piece.genre)
    \/ \E c \in ga.avoid_composers : InLower(c, piece.composer)

\* "preferred_tempo" is no key of the analysis: the default "moderate" is used.
CollaborativeScore(piece, ga) ==
      (IF \E g \in Range(ga.common_genres) : InLower(g, piece.genre)
       THEN 3 ELSE 0)
    + (IF \E c \in Range(ga.common_composers) : InLower(c, piece.composer)
       THEN 5 ELSE 0)
    + (IF piece.difficulty \in ga.skill_levels THEN 2 ELSE 0)
    + (IF piece.style = "medium" THEN 1 ELSE 0)

Scored(piece, score) ==
    [title |-> piece.title, composer |-> piece.composer,
     duration_minutes |-> piece.duration_minutes, genre |-> piece.genre,
     style |-> piece.style, difficulty |-> piece.difficulty,
     collaborative_score |-> score]

\* list.sort(key = collaborative_score, reverse = True): stable, descending.
RECURSIVE InsertByScore(_, _)
InsertByScore(sorted, x) ==
    IF sorted = <<>> THEN <<x>>
    ELSE IF Head(sorted).collaborative_score >= x.collaborative_score
         THEN <<Head(sorted)>> \o InsertByScore(Tail(sorted), x)
         ELSE <<x>> \o sorted

RECURSIVE SortByScore(_)
SortByScore(s) ==
    IF s = <<>> THEN <<>>
    ELSE InsertByScore(SortByScore(SubSeq(s, 1, Len(s) - 1)), s[Len(s)])

FilterPiecesByPreferences(pieces, ga) ==
    LET kept == SelectSeq(pieces, LAMBDA p : ~Avoided(p, ga))
    IN SortByScore([i \in 1..Len(kept) |->
                       Scored(kept[i], CollaborativeScore(kept[i], ga))])

(***************************************************************************)
(* _select_pieces_for_duration.  target_duration * 0.9 is a float product: *)
(* it raises OverflowError when the int is beyond float range, and for the *)
(* durations of the model (30, 60) it is the exact value 27.0, 54.0, so    *)
(* x <= target * 0.9 is 10 * x <= 9 * target.                              *)
(***************************************************************************)
Overflows(target_duration) == target_duration > FloatMax

WithinTarget(x, target_duration) == x <= target_duration
WithinNinety(x, target_duration) == 10 * x <= 9 * target_duration
BelowNinety(x, target_duration) == 10 * x < 9 * target_duration

\* for preference in preferences: the first piece whose genre contains it.
RECURSIVE HintPieces(_, _)
HintPieces(preferences, pieces) ==
    IF preferences = <<>> THEN <<>>
    ELSE LET hits == SelectSeq(pieces, LAMBDA p : InLower(Head(preferences), p.genre))
         IN (IF hits = <<>> THEN <<>> ELSE <<Head(hits)>>)
            \o HintPieces(Tail(preferences), pieces)

\* The middle loop: skip the pieces reserved for the end, take pieces while
\* they fit, stop at the first one that does not.
RECURSIVE MiddlePieces(_, _, _, _)
MiddlePieces(pieces, end_pieces, current_duration, target_duration) ==
    IF pieces = <<>> THEN <<>>
    ELSE LET piece == Head(pieces) IN
         IF piece \in Range(end_pieces)
         THEN MiddlePieces(Tail(pieces), end_pieces, current_duration, target_duration)
         ELSE IF WithinNinety(current_duration + piece.duration_minutes, target_duration)
              THEN <<piece>> \o MiddlePieces(Tail(pieces), end_pieces,
                                   current_duration + piece.duration_minutes,
                                   target_duration)
              ELSE <<>>

SelectPiecesForDuration(pieces, target_duration, ga) ==
    LET start_pieces == HintPieces(ga.start_preferences, pieces)
        end_pieces   == HintPieces(ga.end_preferences, pieces)
        \* the float product is evaluated at the start piece, at the first
        \* middle piece that is not reserved, or at the end piece
        evaluates == \/ start_pieces # <<>>
                     \/ \E i \in 1..Len(pieces) : pieces[i] \notin Range(end_pieces)
                     \/ end_pieces # <<>>
        start_fits == /\ start_pieces # <<>>
                      /\ WithinNinety(start_pieces[1].duration_minutes, target_duration)
        opener == IF start_fits THEN <<start_pieces[1]>> ELSE <<>>
        rest   == IF start_fits THEN RemoveFirst(pieces, start_pieces[1]) ELSE pieces
        middle == MiddlePieces(rest, end_pieces, SumDurations(opener), target_duration)
        current_duration == SumDurations(opener) + SumDurations(middle)
        closer == IF /\ end_pieces # <<>>
                     /\ BelowNinety(current_duration, target_duration)
                     /\ WithinNinety(current_duration + end_pieces[1].duration_minutes,
                                     target_duration)
                  THEN <<end_pieces[1]>> ELSE <<>>
    IN IF Overflows(target_duration) /\ evaluates
       THEN [raised |-> TRUE, pieces |-> <<>>]
       ELSE [raised |-> FALSE, pieces |-> opener \o middle \o closer]

(***************************************************************************)
(* _generate_setlist_pieces                                                *)
(***************************************************************************)
Catalog(concert_type) ==
    CASE concert_type = "jazz_concert" -> JazzPieces
      [] concert_type = "classical_recital" -> ClassicalPieces
      [] concert_type = "chamber_music" -> ChamberPieces
      [] OTHER -> JazzPieces

GenerateSetlistPieces(ga, duration_minutes, concert_type) ==
    SelectPiecesForDuration(FilterPiecesByPreferences(Catalog(concert_type), ga),
                            duration_minutes, ga)

\* request["setlist_data"] of _generate_collaborative_setlist.  The title is
\* a function of the concert type; design_reasoning is a sentence made of
\* the four listed parts of the analysis.
SetlistData(request, ga, pieces) ==
    [title |-> request.concert_type,
     total_duration |-> SumDurations(pieces),
     pieces |-> pieces,
     design_reasoning |->
        [group_size |-> ga.group_size,
         compatibility_score |-> ga.compatibility_score,
         common_genres |-> ga.common_genres,
         common_composers |-> ga.common_composers,
         skill_levels |-> ga.skill_levels,
         instruments |-> ga.instruments]]

(***************************************************************************)
(* Part I: ChatSetlistService and the endpoints that call it               *)
(***************************************************************************)
\* The record of a call: the operation, its arguments and what it returned.
\*   action     the "action" of the returned dict ("not_found": HTTP 404)
\*   synthesis  whether the call ran _generate_collaborative_setlist, and
\*              whether that raised inside its try block
\*   view       the dict returned by get_setlist_status
NoCall ==
    [op |-> "none", sid |-> "none", user_id |-> "none", success |-> TRUE,
     action |-> "none", required_responses |-> {}, setlist_data |-> <<>>,
     synthesis |-> "none", view |-> <<>>]

Call(op, sid, user_id) ==
    [NoCall EXCEPT !.op = op, !.sid = sid, !.user_id = user_id]

TotalResponses ==
    LET RECURSIVE Total(_)
        Total(S) == IF S = {} THEN 0
                    ELSE LET s == CHOOSE x \in S : TRUE
                         IN Len(group_responses[s]) + Total(S \ {s})
    IN Total(DOMAIN group_responses)

\* handle_setlist_request: setlist_id is a fresh uuid4.
SetlistRequest(setlist_id, user_input, group_member_ids) ==
    LET params == ExtractSetlistParameters(user_input)
        request == [group_member_ids |-> group_member_ids,
                    duration_minutes |-> params.duration_minutes,
                    concert_type |-> params.concert_type,
                    status |-> "collecting_preferences",
                    responses_received |-> <<>>,
                    setlist_data |-> <<>>]
    IN /\ setlist_id \notin DOMAIN active_requests
       /\ active_requests' = (setlist_id :> request) @@ active_requests
       /\ group_responses' = (setlist_id :> <<>>) @@ group_responses
       /\ last' = [Call("request", setlist_id, "none") EXCEPT
                      !.action = "ask_preferences",
                      !.required_responses = Range(group_member_ids)]
       /\ UNCHANGED synth_runs

\* "Check if we have all responses": the members with no response yet.
RemainingUsers(request) ==
    Range(request.group_member_ids) \ Range(request.responses_received)

\* The first branch of handle_preference_response: an id that is no key of
\* active_requests.
UnknownSessionStores(setlist_id, user_id, preference_text) ==
    /\ last' = [Call("response", setlist_id, user_id) EXCEPT
                   !.success = FALSE, !.action = "error"]
    /\ group_responses' =
          (setlist_id :> <<[user_id |-> user_id,
                            preference_text |-> preference_text,
                            preferences |-> ParsePreferenceText(preference_text)]>>)
          @@ group_responses
    /\ UNCHANGED <<active_requests, synth_runs>>

UnknownSession(setlist_id, user_id, preference_text) ==
    /\ last' = [Call("response", setlist_id, user_id) EXCEPT
                   !.success = FALSE, !.action = "error"]
    /\ UNCHANGED <<active_requests, group_responses, synth_runs>>

\* handle_preference_response with _generate_collaborative_setlist.  There is
\* no await before the one on _generate_collaborative_setlist, and that
\* coroutine awaits nothing: on the event loop the call runs to its return
\* without suspending, so it is one step.
PreferenceResponse(setlist_id, user_id, preference_text) ==
    IF setlist_id \notin DOMAIN active_requests
    THEN UnknownSession(setlist_id, user_id, preference_text)
    ELSE LET response_data == [user_id |-> user_id,
                               preference_text |-> preference_text,
                               preferences |-> ParsePreferenceText(preference_text)]
             responses == Append(group_responses[setlist_id], response_data)
             request == [active_requests[setlist_id] EXCEPT
                            !.responses_received = Append(@, user_id)]
             remaining_users == RemainingUsers(request)
             group_analysis == AnalyzeGroupPreferences(responses)
             setlist_pieces == GenerateSetlistPieces(group_analysis,
                                   request.duration_minutes, request.concert_type)
             setlist_data == SetlistData(request, group_analysis,
                                         setlist_pieces.pieces)
         IN /\ group_responses' = [group_responses EXCEPT ![setlist_id] = responses]
            /\ IF remaining_users # {}
               THEN /\ active_requests' =
                           [active_requests EXCEPT ![setlist_id] = request]
                    /\ last' = [Call("response", setlist_id, user_id) EXCEPT
                                   !.action = "waiting_for_responses",
                                   !.required_responses = remaining_users]
                    /\ UNCHANGED synth_runs
               ELSE /\ synth_runs' = [synth_runs EXCEPT ![setlist_id] = @ + 1]
                    /\ IF setlist_pieces.raised
                       THEN /\ active_requests' =
                                   [active_requests EXCEPT ![setlist_id] = request]
                            /\ last' = [Call("response", setlist_id, user_id) EXCEPT
                                           !.success = FALSE, !.action = "error",
                                           !.synthesis = "raised"]
                       ELSE /\ active_requests' =
                                   [active_requests EXCEPT ![setlist_id] =
                                       [request EXCEPT
                                           !.status = "completed",
                                           !.setlist_data = <<setlist_data>>]]
                            /\ last' = [Call("response", setlist_id, user_id) EXCEPT
                                           !.action = "setlist_complete",
                                           !.setlist_data = <<setlist_data>>,
                                           !.synthesis = "ok"]

\* a view that leaves the setlist data out
StatusViewWithoutData(setlist_id) ==
    LET request == active_requests[setlist_id]
        responses == group_responses[setlist_id]
    IN [request_status |-> request.status,
        total_members |-> Len(request.group_member_ids),
        responses_received |-> Len(responses),
        remaining_responses |->
            Len(request.group_member_ids) - Len(request.responses_received),
        setlist_data |-> <<>>]
\* get_setlist_status of api/chat_setlist.py
StatusView(setlist_id) ==
    LET request == active_requests[setlist_id]
        responses == group_responses[setlist_id]
    IN [request_status |-> request.status,
        total_members |-> Len(request.group_member_ids),
        responses_received |-> Len(responses),
        remaining_responses |->
            Len(request.group_member_ids) - Len(request.responses_received),
        setlist_data |-> request.setlist_data]

\* (request.pop in place of request.get)
SetlistStatusPop(setlist_id) ==
    /\ last' = IF setlist_id \notin DOMAIN active_requests
               THEN [Call("status", setlist_id, "none") EXCEPT
                        !.success = FALSE, !.action = "not_found"]
               ELSE [Call("status", setlist_id, "none") EXCEPT
                        !.action = "status",
                        !.view = <<StatusView(setlist_id)>>]
    /\ active_requests' =
          [s \in DOMAIN active_requests |->
              IF s = setlist_id THEN [active_requests[s] EXCEPT !.setlist_data = <<>>]
              ELSE active_requests[s]]
    /\ UNCHANGED <<group_responses, synth_runs>>

SetlistStatus(setlist_id) ==
    /\ last' = IF setlist_id \notin DOMAIN active_requests
               THEN [Call("status", setlist_id, "none") EXCEPT
                        !.success = FALSE, !.action = "not_found"]
               ELSE [Call("status", setlist_id, "none") EXCEPT
                        !.action = "status",
                        !.view = <<StatusView(setlist_id)>>]
    /\ UNCHANGED <<active_requests, group_responses, synth_runs>>

(***************************************************************************)
(* Part II.  MultiAgentCoordinator: three agents, four phases               *)
(***************************************************************************)
\* self.agents, in the order of the dict.
Agents == <<"curator", "technical", "flow">>

\* A requirements dict is a function whose domain is the keys it holds.  The
\* value of duration_minutes is <<n>> for the number n and None for None.
None == <<>>
Has(requirements, key) == key \in DOMAIN requirements
Get(requirements, key, default) ==
    IF Has(requirements, key) THEN requirements[key] ELSE default
HasAll(requirements, keys) == keys \subseteq DOMAIN requirements

\* requirements.get("duration_minutes", 60)
DefaultDuration == 60
TargetDuration(requirements) ==
    Get(requirements, "duration_minutes", <<DefaultDuration>>)

\* x < 30 on the duration raises TypeError for None.
Comparable(duration) == duration # None

RequirementsSet ==
    { [concert_type |-> "classical_recital", duration_minutes |-> <<15>>,
       skill_level |-> "beginner", instruments |-> <<"piano">>],
      [concert_type |-> "jazz_concert", duration_minutes |-> <<30>>,
       skill_level |-> "advanced", instruments |-> <<"piano">>],
      [concert_type |-> "jazz_concert",
       skill_level |-> "advanced", instruments |-> <<"piano">>],
      [concert_type |-> "classical_recital", duration_minutes |-> None,
       skill_level |-> "beginner", instruments |-> <<"piano">>],
      [concert_type |-> "classical_recital", duration_minutes |-> None,
       skill_level |-> "beginner"],
      [duration_minutes |-> <<30>>, instruments |-> <<"piano">>] }

SuggestedPiece(title, composer, duration_minutes, difficulty_level) ==
    [title |-> title, composer |-> composer,
     duration_minutes |-> duration_minutes,
     difficulty_level |-> difficulty_level]

\* analyze_requirements of each agent: "ok", or "error" when it raises
\* (KeyError on a missing key, TypeError on None < 30).  None calls the LLM.
CuratorAnalyzeRequirements(requirements) ==
    IF Comparable(TargetDuration(requirements)) THEN "ok" ELSE "error"

TechnicalAnalyzeRequirements(requirements) ==
    IF /\ HasAll(requirements, {"skill_level", "instruments", "duration_minutes"})
       /\ Comparable(requirements.duration_minutes)
    THEN "ok" ELSE "error"

FlowAnalyzeRequirements(requirements) ==
    IF /\ Has(requirements, "duration_minutes")
       /\ Comparable(requirements.duration_minutes)
    THEN "ok" ELSE "error"

AnalyzeRequirements(agent, requirements) ==
    CASE agent = "curator" -> CuratorAnalyzeRequirements(requirements)
      [] agent = "technical" -> TechnicalAnalyzeRequirements(requirements)
      [] agent = "flow" -> FlowAnalyzeRequirements(requirements)

\* The prompt builders of suggest_pieces: TRUE when the prompt is built,
\* FALSE when building it raises.
BuildSuggestionPrompt(requirements) ==
    HasAll(requirements,
           {"concert_type", "duration_minutes", "instruments", "skill_level"})

BuildTechnicalSuggestionPrompt(requirements) ==
    /\ HasAll(requirements, {"skill_level", "instruments", "duration_minutes"})
    /\ Comparable(requirements.duration_minutes)

BuildFlowSuggestionPrompt(requirements) ==
    /\ HasAll(requirements, {"concert_type", "duration_minutes", "instruments"})
    /\ Comparable(requirements.duration_minutes)

SuggestionPromptBuilt(agent, requirements) ==
    CASE agent = "curator" -> BuildSuggestionPrompt(requirements)
      [] agent = "technical" -> BuildTechnicalSuggestionPrompt(requirements)
      [] agent = "flow" -> BuildFlowSuggestionPrompt(requirements)

\* The pieces each agent makes of a successful LLM response.
ParsePieceSuggestions(requirements) ==
    IF requirements.concert_type = "classical_recital"
    THEN << SuggestedPiece("Sonata in C Major, K. 545", "Mozart", 15,
                           requirements.skill_level),
            SuggestedPiece("Nocturne in E-flat Major, Op. 9, No. 2", "Chopin", 4,
                           requirements.skill_level) >>
    ELSE <<>>

ParseTechnicalSuggestions(requirements) ==
    << SuggestedPiece("Technical Piece 1", "Technical Composer", 8,
                      requirements.skill_level) >>

ParseFlowSuggestions(requirements) ==
    << SuggestedPiece("Flow Piece 1", "Flow Composer", 6,
                      Get(requirements, "skill_level", "intermediate")) >>

ParseSuggestions(agent, requirements) ==
    CASE agent = "curator" -> ParsePieceSuggestions(requirements)
      [] agent = "technical" -> ParseTechnicalSuggestions(requirements)
      [] agent = "flow" -> ParseFlowSuggestions(requirements)

\* The fallback list of each agent: one piece, or a KeyError raised on
\* requirements["skill_level"] or requirements["instruments"].
GetFallbackSuggestions(requirements) ==
    IF HasAll(requirements, {"skill_level", "instruments"})
    THEN [raised |-> FALSE,
          pieces |-> << SuggestedPiece("Sample Piece 1", "Sample Composer", 5,
                                       requirements.skill_level) >>]
    ELSE [raised |-> TRUE, pieces |-> <<>>]

GetFallbackTechnicalSuggestions(requirements) ==
    IF HasAll(requirements, {"skill_level", "instruments"})
    THEN [raised |-> FALSE,
          pieces |-> << SuggestedPiece("Technical Fallback Piece",
                                       "Technical Composer", 5,
                                       requirements.skill_level) >>]
    ELSE [raised |-> TRUE, pieces |-> <<>>]

GetFallbackFlowSuggestions(requirements) ==
    IF Has(requirements, "instruments")
    THEN [raised |-> FALSE,
          pieces |-> << SuggestedPiece("Flow Fallback Piece", "Flow Composer", 5,
                            Get(requirements, "skill_level", "intermediate")) >>]
    ELSE [raised |-> TRUE, pieces |-> <<>>]

FallbackSuggestions(agent, requirements) ==
    CASE agent = "curator" -> GetFallbackSuggestions(requirements)
      [] agent = "technical" -> GetFallbackTechnicalSuggestions(requirements)
      [] agent = "flow" -> GetFallbackFlowSuggestions(requirements)

\* suggest_pieces: llm_ok is the success of the one call_llm it makes.  The
\* outcome is "ok" (parsed pieces), "fallback" (the fallback list) or
\* "raised" (the fallback itself raised, out of suggest_pieces).
SuggestPieces(agent, requirements, llm_ok) ==
    IF SuggestionPromptBuilt(agent, requirements) /\ llm_ok
    THEN [outcome |-> "ok", pieces |-> ParseSuggestions(agent, requirements)]
    ELSE LET fallback == FallbackSuggestions(agent, requirements)
         IN IF fallback.raised
            THEN [outcome |-> "raised", pieces |-> <<>>]
            ELSE [outcome |-> "fallback", pieces |-> fallback.pieces]

\* The prompt builders of evaluate_piece: TRUE when the prompt is built,
\* FALSE when building it raises.
BuildEvaluationPrompt(requirements) ==
    HasAll(requirements,
           {"concert_type", "duration_minutes", "skill_level", "instruments"})

BuildTechnicalEvaluationPrompt(requirements) ==
    HasAll(requirements, {"skill_level", "instruments"})

BuildFlowEvaluationPrompt(requirements) ==
    /\ Has(requirements, "duration_minutes")
    /\ Comparable(requirements.duration_minutes)

EvaluationPromptBuilt(agent, requirements) ==
    CASE agent = "curator" -> BuildEvaluationPrompt(requirements)
      [] agent = "technical" -> BuildTechnicalEvaluationPrompt(requirements)
      [] agent = "flow" -> BuildFlowEvaluationPrompt(requirements)

\* _parse_evaluation / _get_default_evaluation and their namesakes in the
\* other two agents, which differ in fields the coordinator never reads;
\* confidence in tenths.
ParsedConfidence == 8
DefaultConfidence == 5
ParseEvaluation == [recommendation |-> "include", confidence |-> ParsedConfidence]
DefaultEvaluation == [recommendation |-> "include", confidence |-> DefaultConfidence]

\* evaluate_piece: never raises.
EvaluatePiece(agent, requirements, llm_ok) ==
    IF EvaluationPromptBuilt(agent, requirements) /\ llm_ok
    THEN ParseEvaluation ELSE DefaultEvaluation

\* _phase_analysis
PhaseAnalysisResults(requirements) ==
    [i \in 1..Len(Agents) |-> AnalyzeRequirements(Agents[i], requirements)]

\* _phase_suggestions: an agent whose suggest_pieces raised contributes [].
PhaseSuggestionResults(requirements, llm) ==
    [i \in 1..Len(Agents) |-> SuggestPieces(Agents[i], requirements, llm[i])]

\* _collect_unique_pieces: first piece of each title, empty titles dropped.
AllTitled(pieces, seen_titles) ==
    SelectSeq(pieces, LAMBDA piece : piece.title # "")
RECURSIVE UniqueByTitle(_, _)
UniqueByTitle(pieces, seen_titles) ==
    IF pieces = <<>> THEN <<>>
    ELSE IF Head(pieces).title # "" /\ Head(pieces).title \notin seen_titles
         THEN <<Head(pieces)>>
                 \o UniqueByTitle(Tail(pieces), seen_titles \cup {Head(pieces).title})
         ELSE UniqueByTitle(Tail(pieces), seen_titles)

CollectUniquePieces(suggestion_results) ==
    UniqueByTitle(Concat([i \in 1..Len(suggestion_results) |->
                             suggestion_results[i].pieces]), {})

\* _phase_evaluation: every agent evaluates every piece; llm[i][j] is the
\* success of the LLM call of agent i on piece j.
PhaseEvaluationResults(all_pieces, requirements, llm) ==
    [i \in 1..Len(Agents) |->
        [j \in 1..Len(all_pieces) |->
            [piece |-> all_pieces[j],
             evaluation |-> EvaluatePiece(Agents[i], requirements, llm[i][j]),
             agent |-> Agents[i]]]]

\* _extract_score_from_evaluation, in tenths: the first numeric score field,
\* else a score by recommendation.
ScoreByRecommendation(evaluation) ==
    LET recommendation == Get(evaluation, "recommendation", "exclude")
    IN CASE recommendation = "include" -> 80
         [] recommendation = "modify" -> 50
         [] OTHER -> 20
ExtractScoreFromEvaluation(evaluation) ==
    IF "confidence" \in DOMAIN evaluation THEN evaluation.confidence
    ELSE LET recommendation == Get(evaluation, "recommendation", "exclude")
         IN CASE recommendation = "include" -> 80
              [] recommendation = "modify" -> 50
              [] OTHER -> 20

\* _score_pieces: one entry per piece title, in the order of first
\* evaluation.  average_score is total_score / evaluation_count, kept here in
\* sixtieths of a tenth, which is exact for one to three evaluations.
AverageScore(total_score, evaluation_count) ==
    IF evaluation_count > 0 THEN (total_score * 6) \div evaluation_count ELSE 0

RECURSIVE ScoreFold(_, _)
ScoreFold(evaluations, piece_scores) ==
    IF evaluations = <<>> THEN piece_scores
    ELSE LET eval_data == Head(evaluations)
             score == ExtractScoreFromEvaluation(eval_data.evaluation)
             known == {k \in 1..Len(piece_scores) :
                          piece_scores[k].piece.title = eval_data.piece.title}
         IN IF known = {}
            THEN ScoreFold(Tail(evaluations),
                     Append(piece_scores,
                            [piece |-> eval_data.piece, total_score |-> score,
                             evaluation_count |-> 1]))
            ELSE ScoreFold(Tail(evaluations),
                     [k \in 1..Len(piece_scores) |->
                         IF k \in known
                         THEN [piece_scores[k] EXCEPT
                                  !.total_score = @ + score,
                                  !.evaluation_count = @ + 1]
                         ELSE piece_scores[k]])

ScorePieces(evaluation_results) ==
    LET folded == ScoreFold(Concat(evaluation_results), <<>>)
    IN [k \in 1..Len(folded) |->
           [piece |-> folded[k].piece,
            average_score |-> AverageScore(folded[k].total_score,
                                           folded[k].evaluation_count)]]

\* sorted(piece_scores.values(), key = average_score, reverse = True):
\* stable, descending.
RECURSIVE InsertByAverage(_, _)
InsertByAverage(sorted, x) ==
    IF sorted = <<>> THEN <<x>>
    ELSE IF Head(sorted).average_score >= x.average_score
         THEN <<Head(sorted)>> \o InsertByAverage(Tail(sorted), x)
         ELSE <<x>> \o sorted

RECURSIVE SortByAverage(_)
SortByAverage(s) ==
    IF s = <<>> THEN <<>>
    ELSE InsertByAverage(SortByAverage(SubSeq(s, 1, Len(s) - 1)), s[Len(s)])

\* "5 minute buffer" and "Maximum pieces" of _select_pieces_for_setlist.
Buffer == 5
MaxPieces == 8

\* The loop of _select_pieces_for_setlist over the sorted entries.
RECURSIVE SelectLoopTestsBefore(_, _, _, _)
SelectLoopTestsBefore(sorted_pieces, selected_pieces, total_duration, target_duration) ==
    IF sorted_pieces = <<>> THEN selected_pieces
    ELSE LET piece == Head(sorted_pieces).piece
         IN IF total_duration <= target_duration[1] + Buffer
            THEN IF Len(selected_pieces) + 1 >= MaxPieces
                 THEN Append(selected_pieces, piece)
                 ELSE SelectLoopTestsBefore(Tail(sorted_pieces),
                                  Append(selected_pieces, piece),
                                  total_duration + piece.duration_minutes,
                                  target_duration)
            ELSE SelectLoopTestsBefore(Tail(sorted_pieces), selected_pieces,
                                       total_duration, target_duration)

RECURSIVE SelectLoop(_, _, _, _)
SelectLoop(sorted_pieces, selected_pieces, total_duration, target_duration) ==
    IF sorted_pieces = <<>> THEN selected_pieces
    ELSE LET piece == Head(sorted_pieces).piece
         IN IF total_duration + piece.duration_minutes
                  <= target_duration[1] + Buffer
            THEN IF Len(selected_pieces) + 1 >= MaxPieces
                 THEN Append(selected_pieces, piece)
                 ELSE SelectLoop(Tail(sorted_pieces),
                                 Append(selected_pieces, piece),
                                 total_duration + piece.duration_minutes,
                                 target_duration)
            ELSE SelectLoop(Tail(sorted_pieces), selected_pieces,
                            total_duration, target_duration)

\* _select_pieces_for_setlist: raises TypeError on None + 5 as soon as there
\* is a piece to test.
SelectRaises(piece_scores, requirements) ==
    piece_scores # <<>> /\ ~Comparable(TargetDuration(requirements))

SelectPiecesForSetlist(piece_scores, requirements) ==
    SelectLoop(SortByAverage(piece_scores), <<>>, 0, TargetDuration(requirements))

\* the first piece, whatever its difficulty
FirstPiece(pieces) == pieces[1]
\* _find_opening_piece and _order_pieces_for_flow.
FindOpeningPiece(pieces) ==
    LET easy == {k \in 1..Len(pieces) :
                    pieces[k].difficulty_level \in {"beginner", "intermediate"}}
    IN IF easy # {} THEN pieces[CHOOSE k \in easy : \A m \in easy : k <= m]
       ELSE pieces[1]

OrderPiecesForFlow(pieces) ==
    IF pieces = <<>> THEN pieces
    ELSE LET opening_piece == FindOpeningPiece(pieces)
         IN <<opening_piece>> \o RemoveFirst(pieces, opening_piece)

\* _generate_setlist_metadata and the dict _phase_synthesis returns.  The
\* title is kept as its parts: the concert type (title-cased by the code) and
\* the composer of the first piece.
SynthesizedSetlist(ordered_pieces, requirements) ==
    [title |-> [concert_type |-> Get(requirements, "concert_type", "concert"),
                featuring |-> IF ordered_pieces = <<>> THEN <<>>
                              ELSE <<ordered_pieces[1].composer>>],
     total_duration |-> SumDurations(ordered_pieces),
     pieces |-> ordered_pieces,
     design_reasoning |-> "designed"]

\* _create_fallback_setlist
FallbackTotalDuration == 30
CreateFallbackSetlist(requirements) ==
    [title |-> [concert_type |-> Get(requirements, "concert_type", "Concert"),
                featuring |-> <<>>],
     total_duration |-> FallbackTotalDuration,
     pieces |-> << SuggestedPiece("Sample Piece 1", "Sample Composer", 5,
                       Get(requirements, "skill_level", "intermediate")) >>,
     design_reasoning |-> "fallback"]

\* _phase_synthesis
PhaseSynthesisOfNothing(evaluation_results, requirements) ==
    LET piece_scores == ScorePieces(evaluation_results)
    IN SynthesizedSetlist(
           IF SelectRaises(piece_scores, requirements) THEN <<>>
           ELSE OrderPiecesForFlow(
                    SelectPiecesForSetlist(piece_scores, requirements)),
           requirements)
PhaseSynthesis(evaluation_results, requirements) ==
    LET piece_scores == ScorePieces(evaluation_results)
    IN IF SelectRaises(piece_scores, requirements)
       THEN CreateFallbackSetlist(requirements)
       ELSE SynthesizedSetlist(
                OrderPiecesForFlow(
                    SelectPiecesForSetlist(piece_scores, requirements)),
                requirements)

\* the total divided by the number of agents
ConfidencePerAgent(evaluation_results) ==
    LET all == Concat(evaluation_results)
        Total[k \in 0..Len(all)] ==
            IF k = 0 THEN 0
            ELSE Total[k - 1] + Get(all[k].evaluation, "confidence", DefaultConfidence)
    IN IF Len(all) > 0 THEN [total |-> Total[Len(all)], count |-> Len(Agents)]
       ELSE [total |-> DefaultConfidence, count |-> 1]
\* _calculate_overall_confidence: total and count of the evaluations'
\* confidences (tenths); the mean is total / count, and 0.5 without any.
CalculateOverallConfidence(evaluation_results) ==
    LET all == Concat(evaluation_results)
        Total[k \in 0..Len(all)] ==
            IF k = 0 THEN 0
            ELSE Total[k - 1] + Get(all[k].evaluation, "confidence", DefaultConfidence)
    IN IF Len(all) > 0 THEN [total |-> Total[Len(all)], count |-> Len(all)]
       ELSE [total |-> DefaultConfidence, count |-> 1]

\* design_setlist returns success with the setlist of phase 4: nothing
\* outside the phases raises.
DesignResult(evaluation_results, requirements) ==
    [success |-> TRUE,
     setlist |-> PhaseSynthesis(evaluation_results, requirements),
     confidence |-> CalculateOverallConfidence(evaluation_results)]

(***************************************************************************)
(* Spec: any sequence of calls on the service.  (once and co belong to     *)
(* SpecOnce and SpecDesign and stay as they start.)                        *)
(***************************************************************************)
NoApplication == [op |-> "none"]

NoDesign ==
    [phase |-> "idle", requirements |-> <<>>, analysis_results |-> <<>>,
     suggestion_results |-> <<>>, evaluation_results |-> <<>>,
     result |-> <<>>, piece_scores |-> <<>>, selected_pieces |-> <<>>,
     ordered_pieces |-> <<>>]

Init ==
    /\ active_requests = [s \in {} |-> 0]
    /\ group_responses = [s \in {} |-> 0]
    /\ synth_runs = [s \in SessionIds |-> 0]
    /\ last = NoCall
    /\ once = [sid |-> "none", pending |-> {}]
    /\ co = NoDesign
    /\ fn = NoApplication

HandleSetlistRequest ==
    /\ \E setlist_id \in SessionIds, user_input \in RequestTexts,
          group_member_ids \in MemberLists :
            SetlistRequest(setlist_id, user_input, group_member_ids)
    /\ UNCHANGED <<once, co, fn>>

HandlePreferenceResponse ==
    /\ \E setlist_id \in SessionIds, user_id \in Users,
          preference_text \in PreferenceTexts :
            /\ setlist_id \in DOMAIN active_requests => TotalResponses < MaxResponses
            /\ PreferenceResponse(setlist_id, user_id, preference_text)
    /\ UNCHANGED <<once, co, fn>>

GetSetlistStatus ==
    /\ \E setlist_id \in SessionIds : SetlistStatus(setlist_id)
    /\ UNCHANGED <<once, co, fn>>

Next == HandleSetlistRequest \/ HandlePreferenceResponse \/ GetSetlistStatus

Spec == Init /\ [][Next]_vars

(***************************************************************************)
(* SpecOnce: one session, every required participant responds exactly      *)
(* once, the calls being in flight together.  Each call is one step (see   *)
(* PreferenceResponse), so the interleavings are the orders of the calls.  *)
(***************************************************************************)
OnceMemberLists == MemberLists \cup {<<"a", "b", "c">>}

StartOnce ==
    /\ once.sid = "none"
    /\ \E setlist_id \in SessionIds, user_input \in AllRequestTexts,
          group_member_ids \in OnceMemberLists :
            /\ SetlistRequest(setlist_id, user_input, group_member_ids)
            /\ once' = [sid |-> setlist_id, pending |-> Range(group_member_ids)]
    /\ UNCHANGED <<co, fn>>

ConcurrentResponse ==
    /\ once.sid # "none"
    /\ \E user_id \in once.pending, preference_text \in PreferenceTexts :
            /\ PreferenceResponse(once.sid, user_id, preference_text)
            /\ once' = [once EXCEPT !.pending = @ \ {user_id}]
    /\ UNCHANGED <<co, fn>>

NextOnce == StartOnce \/ ConcurrentResponse

SpecOnce == Init /\ [][NextOnce]_vars

(***************************************************************************)
(* SpecDesign: one call of MultiAgentCoordinator.design_setlist, a step     *)
(* per phase, the success of each LLM call chosen freely; and               *)
(* _select_pieces_for_setlist applied to arbitrary scored candidates.       *)
(***************************************************************************)
\* Longest list of scored candidates handed to _select_pieces_for_setlist.
MaxCandidates == 9
\* Longest list of pieces suggested by the curator in SuggestedByAgents.
MaxSuggested == 2
\* Candidate pieces by duration and average score, and the target durations.
CandidateKinds ==
    { [duration_minutes |-> 4, average_score |-> 48],
      [duration_minutes |-> 15, average_score |-> 48],
      [duration_minutes |-> 15, average_score |-> 30] }
Targets == {15, 60}

\* The difficulty of the k-th candidate.
CandidateDifficulties ==
    <<"advanced", "expert", "intermediate", "advanced", "beginner">>
CandidateScores(kinds) ==
    [k \in 1..Len(kinds) |->
        [piece |-> SuggestedPiece(ToString(k), "Composer",
                                  kinds[k].duration_minutes,
                                  CandidateDifficulties[
                                      ((k - 1) % Len(CandidateDifficulties)) + 1]),
         average_score |-> kinds[k].average_score]]

DesignSetlist ==
    /\ co.phase = "idle"
    /\ \E requirements \in RequirementsSet :
          co' = [NoDesign EXCEPT
                    !.phase = "analysis",
                    !.requirements = requirements,
                    !.analysis_results = PhaseAnalysisResults(requirements)]
    /\ UNCHANGED <<active_requests, group_responses, synth_runs, last, once, fn>>

PhaseSuggestions ==
    /\ co.phase = "analysis"
    /\ \E llm \in [1..Len(Agents) -> BOOLEAN] :
          co' = [co EXCEPT
                    !.phase = "suggestions",
                    !.suggestion_results =
                        PhaseSuggestionResults(co.requirements, llm)]
    /\ UNCHANGED <<active_requests, group_responses, synth_runs, last, once, fn>>

PhaseEvaluation ==
    /\ co.phase = "suggestions"
    /\ LET all_pieces == CollectUniquePieces(co.suggestion_results)
       IN \E llm \in [1..Len(Agents) -> [1..Len(all_pieces) -> BOOLEAN]] :
             co' = [co EXCEPT
                       !.phase = "evaluation",
                       !.evaluation_results =
                           PhaseEvaluationResults(all_pieces, co.requirements, llm)]
    /\ UNCHANGED <<active_requests, group_responses, synth_runs, last, once, fn>>

PhaseSynthesisReturn ==
    /\ co.phase = "evaluation"
    /\ LET piece_scores == ScorePieces(co.evaluation_results)
       IN co' = [co EXCEPT
                    !.phase = "done",
                    !.piece_scores = piece_scores,
                    !.selected_pieces =
                        IF SelectRaises(piece_scores, co.requirements) THEN <<>>
                        ELSE SelectPiecesForSetlist(piece_scores, co.requirements),
                    !.ordered_pieces =
                        IF SelectRaises(piece_scores, co.requirements) THEN <<>>
                        ELSE OrderPiecesForFlow(
                                 SelectPiecesForSetlist(piece_scores, co.requirements)),
                    !.result = <<DesignResult(co.evaluation_results,
                                              co.requirements)>>]
    /\ UNCHANGED <<active_requests, group_responses, synth_runs, last, once, fn>>

SelectForSetlist ==
    /\ co.phase = "idle"
    /\ \E n \in 0..MaxCandidates, target_duration \in Targets :
          \E kinds \in [1..n -> CandidateKinds] :
             LET requirements == [duration_minutes |-> <<target_duration>>]
                 piece_scores == CandidateScores(kinds)
             IN co' = [NoDesign EXCEPT
                          !.phase = "selected",
                          !.requirements = requirements,
                          !.piece_scores = piece_scores,
                          !.selected_pieces =
                              SelectPiecesForSetlist(piece_scores, requirements),
                          !.ordered_pieces =
                              OrderPiecesForFlow(
                                  SelectPiecesForSetlist(piece_scores, requirements))]
    /\ UNCHANGED <<active_requests, group_responses, synth_runs, last, once, fn>>

\* _phase_evaluation applied to arbitrary suggestions: lists of pieces whose
\* titles repeat within a list and across the agents.
SuggestedKinds ==
    { SuggestedPiece("Title A", "Composer 1", 5, "advanced"),
      SuggestedPiece("Title A", "Composer 2", 6, "beginner"),
      SuggestedPiece("Title B", "Composer 1", 4, "advanced") }
ListsUpTo(n) == UNION {[1..k -> SuggestedKinds] : k \in 0..n}

SuggestedByAgents ==
    /\ co.phase = "idle"
    /\ \E curator \in ListsUpTo(MaxSuggested), technical \in ListsUpTo(1),
          flow \in ListsUpTo(1) :
          LET requirements ==
                  [concert_type |-> "jazz_concert", duration_minutes |-> <<30>>,
                   skill_level |-> "advanced", instruments |-> <<"piano">>]
              suggestions == <<curator, technical, flow>>
          IN co' = [NoDesign EXCEPT
                       !.phase = "suggestions",
                       !.requirements = requirements,
                       !.analysis_results = PhaseAnalysisResults(requirements),
                       !.suggestion_results =
                           [i \in 1..Len(Agents) |->
                               [outcome |-> "ok", pieces |-> suggestions[i]]]]
    /\ UNCHANGED <<active_requests, group_responses, synth_runs, last, once, fn>>

NextDesign ==
    \/ SuggestedByAgents
    \/ DesignSetlist
    \/ PhaseSuggestions
    \/ PhaseEvaluation
    \/ PhaseSynthesisReturn
    \/ SelectForSetlist

SpecDesign == Init /\ [][NextDesign]_vars

(***************************************************************************)
(* SpecFn: the functions of Part I applied to drawn inputs.  The parser is *)
(* applied to a text; the analysis, the filter and the selection are       *)
(* applied to the records of up to MaxRecords participants.  The initial   *)
(* state holds the input, the one step applies the function.               *)
(***************************************************************************)
\* the entries handle_preference_response appends for these texts
FnResponses(texts) ==
    [i \in 1..Len(texts) |->
        [user_id |-> <<"a", "b", "c">>[i], preference_text |-> texts[i],
         preferences |-> ParsePreferenceText(texts[i])]]

\* the inputs: one text for the parser, or the texts of the participants
\* with a target duration and a concert type
InitFn ==
    /\ active_requests = [s \in {} |-> 0]
    /\ group_responses = [s \in {} |-> 0]
    /\ synth_runs = [s \in SessionIds |-> 0]
    /\ last = NoCall
    /\ once = [sid |-> "none", pending |-> {}]
    /\ co = NoDesign
    /\ fn \in {[op |-> "text", preference_text |-> preference_text] :
                  preference_text \in FnTexts \cup PreferenceTexts}
              \cup {[op |-> "records", texts |-> texts,
                     duration_minutes |-> duration_minutes,
                     concert_type |-> concert_type] :
                       texts \in UNION {[1..n -> FnTexts] : n \in 1..MaxRecords},
                       duration_minutes \in FnDurations,
                       concert_type \in FnConcertTypes}

ApplyParse ==
    /\ fn.op = "text"
    /\ fn' = [op |-> "parse", preference_text |-> fn.preference_text,
              preferences |-> ParseText(fn.preference_text)]
    /\ UNCHANGED <<active_requests, group_responses, synth_runs, last, once, co>>

ApplyGenerate ==
    /\ fn.op = "records"
    /\ LET ga == AnalyzeGroupPreferences(FnResponses(fn.texts))
           filtered == FilterPiecesByPreferences(Catalog(fn.concert_type), ga)
       IN  fn' = [op |-> "generate", texts |-> fn.texts,
                  duration_minutes |-> fn.duration_minutes,
                  concert_type |-> fn.concert_type,
                  group_analysis |-> ga,
                  filtered |-> filtered,
                  pieces |-> SelectPiecesForDuration(
                                 filtered, fn.duration_minutes, ga).pieces]
    /\ UNCHANGED <<active_requests, group_responses, synth_runs, last, once, co>>

NextFn == ApplyParse \/ ApplyGenerate

SpecFn == InitFn /\ [][NextFn]_vars

(***************************************************************************)
(* SpecCalls: design_setlist call by call.  Each await of a phase's loop   *)
(* is one step: analyze_requirements, suggest_pieces and evaluate_piece of *)
(* one agent (on one piece), then the synthesis.  co.calls is the          *)
(* sequence of the calls made so far, each with what it was given.         *)
(***************************************************************************)
\* the loop over self.agents has run to its end
PhaseStarted(results) == Len(results) >= 1
PhaseComplete(results) == Len(results) = Len(Agents)

\* context of _phase_suggestions: analysis_results.get(agent_name, {}) and
\* the analyses of the other agents
SuggestionContext(i, analysis_results) ==
    [analysis |-> IF i <= Len(analysis_results)
                     THEN <<analysis_results[i]>> ELSE <<>>,
     other_analyses |-> [k \in (1..Len(analysis_results)) \ {i} |->
                            analysis_results[k]]]

\* evaluations.append(...) of _phase_evaluation
EvaluationsOrNone(evaluations, entry) ==
    IF entry.evaluation = DefaultEvaluation THEN <<>>
    ELSE Append(evaluations, entry)
Evaluations(evaluations, entry) == Append(evaluations, entry)

StartedCalls(requirements) ==
    [phase |-> "analysis", requirements |-> requirements,
     analysis_results |-> <<>>, suggestion_results |-> <<>>,
     all_pieces |-> <<>>, evaluations |-> <<>>, evaluation_results |-> <<>>,
     calls |-> <<>>, result |-> <<>>]

DesignCalls ==
    /\ co.phase = "idle"
    /\ \E requirements \in RequirementsSet : co' = StartedCalls(requirements)
    /\ UNCHANGED <<active_requests, group_responses, synth_runs, last, once, fn>>

AnalyzeCall ==
    /\ co.phase = "analysis"
    /\ LET i == Len(co.analysis_results) + 1
           results == Append(co.analysis_results,
                             AnalyzeRequirements(Agents[i], co.requirements))
       IN co' = [co EXCEPT
                    !.analysis_results = results,
                    !.calls = Append(@, [op |-> "analyze", agent |-> Agents[i]]),
                    !.phase = IF PhaseComplete(results) THEN "suggestions" ELSE @]
    /\ UNCHANGED <<active_requests, group_responses, synth_runs, last, once, fn>>

\* with the last suggestion _phase_evaluation starts: it collects the pieces,
\* and without pieces every agent's list of evaluations is empty
SuggestCall ==
    /\ co.phase = "suggestions"
    /\ \E llm_ok \in BOOLEAN :
          LET i == Len(co.suggestion_results) + 1
              results == Append(co.suggestion_results,
                                SuggestPieces(Agents[i], co.requirements, llm_ok))
              all_pieces == CollectUniquePieces(results)
          IN co' = [co EXCEPT
                       !.suggestion_results = results,
                       !.calls = Append(@, [op |-> "suggest", agent |-> Agents[i],
                                            context |-> SuggestionContext(
                                                i, co.analysis_results)]),
                       !.phase = IF PhaseComplete(results) THEN "evaluation" ELSE @,
                       !.all_pieces = IF PhaseComplete(results) THEN all_pieces ELSE @,
                       !.evaluation_results =
                           IF PhaseComplete(results) /\ all_pieces = <<>>
                           THEN [k \in 1..Len(Agents) |-> <<>>] ELSE @]
    /\ UNCHANGED <<active_requests, group_responses, synth_runs, last, once, fn>>

EvaluateCall ==
    /\ co.phase = "evaluation"
    /\ ~PhaseComplete(co.evaluation_results)
    /\ \E llm_ok \in BOOLEAN :
          LET i == Len(co.evaluation_results) + 1
              j == Len(co.evaluations) + 1
              evaluations ==
                  Evaluations(co.evaluations,
                      [piece |-> co.all_pieces[j],
                       evaluation |-> EvaluatePiece(Agents[i], co.requirements, llm_ok),
                       agent |-> Agents[i]])
              last_piece == j = Len(co.all_pieces)
          IN co' = [co EXCEPT
                       !.evaluations = IF last_piece THEN <<>> ELSE evaluations,
                       !.evaluation_results =
                           IF last_piece THEN Append(@, evaluations) ELSE @,
                       !.calls = Append(@, [op |-> "evaluate", agent |-> Agents[i],
                                            piece |-> j, llm_ok |-> llm_ok,
                                            suggestions |->
                                                Len(co.suggestion_results)])]
    /\ UNCHANGED <<active_requests, group_responses, synth_runs, last, once, fn>>

SynthesizeCall ==
    /\ co.phase = "evaluation"
    /\ PhaseComplete(co.evaluation_results)
    /\ co' = [co EXCEPT
                 !.phase = "done",
                 !.calls = Append(@, [op |-> "synthesize",
                                      evaluation_results |-> co.evaluation_results]),
                 !.result = <<DesignResult(co.evaluation_results, co.requirements)>>]
    /\ UNCHANGED <<active_requests, group_responses, synth_runs, last, once, fn>>

NextCalls ==
    \/ DesignCalls
    \/ AnalyzeCall
    \/ SuggestCall
    \/ EvaluateCall
    \/ SynthesizeCall

SpecCalls == Init /\ [][NextCalls]_vars

(***************************************************************************)
(* Properties of the collection sessions                                   *)
(***************************************************************************)
Sessions == DOMAIN active_requests
Required(s) == Range(active_requests[s].group_member_ids)
Received(s) == {group_responses[s][i].user_id : i \in 1..Len(group_responses[s])}
Completed(s) == active_requests[s].status = "completed"
Collecting(s) == active_requests[s].status = "collecting_preferences"
RespondedTo(s) == last.op = "response" /\ last.sid = s

\* C1: after any sequence of responses a session is Complete if and only if
\* the participants with a received record are exactly the required
\* participants, in whatever order the responses arrived.
C1_CompleteIffEqual ==
    \A s \in Sessions : Completed(s) <=> Received(s) = Required(s)

\* C2: a session holds at most one record per participant, the one of the
\* participant's latest response, and the aggregation at completion sees one
\* record per participant.
C2_OneRecordPerParticipant ==
    \A s \in Sessions :
        /\ \A i, j \in 1..Len(group_responses[s]) :
              group_responses[s][i].user_id = group_responses[s][j].user_id => i = j
        /\ (RespondedTo(s) /\ last.synthesis = "ok") =>
              last.setlist_data[1].design_reasoning.group_size
                  = Cardinality(Received(s))

\* C3: a response of a participant who has already responded changes neither
\* the remaining participants nor the received and remaining counts that
\* get_status reports.
C3_ResubmissionKeepsProgress ==
    [][\A s \in Sessions :
          (last'.op = "response" /\ last'.sid = s /\ last'.user_id \in Received(s))
          => /\ RemainingUsers(active_requests[s])' = RemainingUsers(active_requests[s])
             /\ StatusView(s)'.responses_received = StatusView(s).responses_received
             /\ StatusView(s)'.remaining_responses = StatusView(s).remaining_responses
      ]_vars

\* C4: once a session is Complete (or Failed) no later response changes its
\* records, its status or its Program, and synthesis is not run again.
C4_NoChangeAfterComplete ==
    [][\A s \in Sessions :
          (active_requests[s].status \in {"completed", "failed"}
              /\ last'.op = "response" /\ last'.sid = s)
          => /\ active_requests'[s] = active_requests[s]
             /\ group_responses'[s] = group_responses[s]
             /\ synth_runs'[s] = synth_runs[s]
      ]_vars

\* C5: when every required participant responds exactly once, concurrently,
\* exactly one call runs synthesis, and no run ends with all responses
\* received and the session still Collecting.
C5_OneSynthesisNoMissedTrigger ==
    once.sid # "none" =>
        /\ synth_runs[once.sid] <= 1
        /\ once.pending # {} => synth_runs[once.sid] = 0
        /\ once.pending = {} =>
              /\ synth_runs[once.sid] = 1
              /\ ~Collecting(once.sid)

\* C6: a response for an id that start_session never returned yields an error
\* result and changes nothing: no session appears and no session's records,
\* status or Program change.
C6_UnknownSessionChangesNothing ==
    [][(last'.op = "response" /\ last'.sid \notin Sessions)
          => /\ last'.action = "error" /\ ~last'.success
             /\ active_requests' = active_requests
             /\ group_responses' = group_responses
             /\ synth_runs' = synth_runs
      ]_vars

C6_Witness ==
    /\ last.op = "response" /\ last.sid \notin Sessions /\ last.action = "error"
    /\ \E s \in Sessions : group_responses[s] # <<>>

\* C7: when synthesis raises in the response that completes the required
\* set, the call returns an error result and the status becomes Failed; the
\* only status changes are Collecting -> Complete and Collecting -> Failed,
\* and Failed is entered only through such an exception.
C7_FailedOnSynthesisException ==
    [][\A s \in Sessions :
          /\ (last'.op = "response" /\ last'.sid = s /\ last'.synthesis = "raised")
                => /\ last'.action = "error"
                   /\ active_requests'[s].status = "failed"
          /\ active_requests'[s].status # active_requests[s].status
                => /\ Collecting(s)
                   /\ active_requests'[s].status \in {"completed", "failed"}
          /\ (active_requests'[s].status = "failed" /\ ~active_requests[s].status = "failed")
                => last'.synthesis = "raised"
      ]_vars

\* C8: get_status changes no session, and consecutive get_status calls on a
\* Complete session return the identical Program, the one attached to it.
C8_StatusIsPureRead ==
    [][last'.op = "status"
          => /\ active_requests' = active_requests
             /\ group_responses' = group_responses
             /\ synth_runs' = synth_runs
             /\ (last'.sid \in Sessions /\ Completed(last'.sid))
                   => /\ last'.view[1].setlist_data
                            = active_requests[last'.sid].setlist_data
                      /\ Len(last'.view[1].setlist_data) = 1
                      /\ (last.op = "status" /\ last.sid = last'.sid)
                            => last'.view = last.view
      ]_vars

C8_Witness ==
    /\ last.op = "status" /\ last.sid \in Sessions /\ Completed(last.sid)
    /\ last.view[1].setlist_data = active_requests[last.sid].setlist_data
    /\ last.view[1].setlist_data[1].pieces # <<>>

(***************************************************************************)
(* Properties of the coordinator                                           *)
(***************************************************************************)
Done == co.phase = "done"
Program == co.result[1].setlist
NumericTarget == Comparable(TargetDuration(co.requirements))
WithinBounds(pieces, target_duration) ==
    /\ SumDurations(pieces) <= target_duration + Buffer
    /\ Len(pieces) <= MaxPieces

\* C9: for every list of scored candidates and every target duration the
\* pieces the coordinator selects last at most target + 5 minutes in sum and
\* are at most 8, and so are the pieces of the Program design_setlist
\* returns (the fallback Program included), for a target that is a number.
C9_SelectionWithinBounds ==
    /\ co.phase = "selected" =>
          WithinBounds(co.selected_pieces, TargetDuration(co.requirements)[1])
    /\ (Done /\ NumericTarget) =>
          WithinBounds(Program.pieces, TargetDuration(co.requirements)[1])

\* Nine candidates that all fit the duration, of which eight are selected.
C9_Witness ==
    /\ co.phase = "selected"
    /\ Len(co.piece_scores) > MaxPieces
    /\ SumDurations([k \in 1..Len(co.piece_scores) |-> co.piece_scores[k].piece])
          <= TargetDuration(co.requirements)[1] + Buffer
    /\ Len(co.selected_pieces) = MaxPieces

\* Every call of analyze_requirements raised, no suggest_pieces call returned
\* pieces of an LLM response, and every evaluate_piece call returned the
\* default evaluation.
EveryAdvisorCallFailed ==
    /\ \A i \in 1..Len(Agents) :
          /\ co.analysis_results[i] = "error"
          /\ co.suggestion_results[i].outcome # "ok"
          /\ \A j \in 1..Len(co.evaluation_results[i]) :
                co.evaluation_results[i][j].evaluation = DefaultEvaluation

\* C10: if every advisor call of every phase fails, design_setlist still
\* returns a Program, and the Program has at least one piece.
C10_ProgramAfterAllFailures ==
    (Done /\ EveryAdvisorCallFailed) =>
        /\ co.result[1].success
        /\ Len(Program.pieces) >= 1

(***************************************************************************)
(* Properties of the functions of Part I (SpecFn)                          *)
(***************************************************************************)
Parsed == fn.op = "parse"
Generated == fn.op = "generate"
Records == FnResponses(fn.texts)
AvoidedBy(i, field) == Range(Records[i].preferences[field])

\* C11: the avoid lists of all records are unioned, and the collaborative
\* Program has no piece whose genre or composer is in the union (in whatever
\* case it is written), also when that genre or composer is a common
\* preference.
C11_AvoidIsVeto ==
    Generated =>
        /\ fn.group_analysis.avoid_genres =
              UNION {AvoidedBy(i, "avoid_genres") : i \in 1..Len(Records)}
        /\ fn.group_analysis.avoid_composers =
              UNION {AvoidedBy(i, "avoid_composers") : i \in 1..Len(Records)}
        /\ \A k \in 1..Len(fn.pieces) :
              /\ \A g \in fn.group_analysis.avoid_genres :
                    Lower(g) # Lower(fn.pieces[k].genre)
              /\ \A c \in fn.group_analysis.avoid_composers :
                    Lower(c) # Lower(fn.pieces[k].composer)

\* Two records with blues as a common genre, one of which avoids blues; the
\* catalog has blues pieces and the Program is not empty.
C11_Witness ==
    /\ Generated
    /\ Len(fn.texts) = 2
    /\ fn.pieces # <<>>
    /\ \E g \in Range(fn.group_analysis.common_genres) :
          /\ \E i \in 1..2 : g \in AvoidedBy(i, "avoid_genres")
          /\ \E i \in 1..2 : g \notin AvoidedBy(i, "avoid_genres")
          /\ \E piece \in Range(Catalog(fn.concert_type)) : piece.genre = g

\* Records whose start and end hints reserved an opener and a closer around
\* the pieces of the greedy fill.
ReservedBothEnds ==
    /\ Generated
    /\ fn.group_analysis.start_preferences # <<>>
    /\ fn.group_analysis.end_preferences # <<>>
    /\ Len(fn.pieces) >= 3
    /\ InLower(fn.group_analysis.start_preferences[1], fn.pieces[1].genre)
    /\ InLower(fn.group_analysis.end_preferences[1],
               fn.pieces[Len(fn.pieces)].genre)
    /\ fn.pieces[1] # fn.pieces[Len(fn.pieces)]

\* C12: for every candidate pool, target duration and set of start and end
\* hints, the durations of the pieces of the collaborative selection (the
\* reserved opener, the greedy fill and the reserved closer together) sum to
\* at most 0.9 times the target duration.
C12_SumWithinNinety ==
    Generated => 10 * SumDurations(fn.pieces) <= 9 * fn.duration_minutes

\* An opener, a fill and a closer that leave less than the shortest piece of
\* the catalog below 0.9 times the target.
C12_Witness ==
    /\ ReservedBothEnds
    /\ 10 * (SumDurations(fn.pieces) + 3) > 9 * fn.duration_minutes

StartHints == Range(fn.group_analysis.start_preferences)
\* the candidates that survived the avoid filter, match a start hint and
\* last at most 0.9 times the target
FittingStarts ==
    {k \in 1..Len(fn.filtered) :
        /\ \E hint \in StartHints : InLower(hint, fn.filtered[k].genre)
        /\ WithinNinety(fn.filtered[k].duration_minutes, fn.duration_minutes)}
\* the pieces up to a reserved closer are in descending order of score
InScoreOrder(pieces) ==
    \A k \in 1..(Len(pieces) - 2) :
        pieces[k].collaborative_score >= pieces[k + 1].collaborative_score

\* C13: if a start hint of some record matches the genre of a candidate that
\* survived the avoid filter and fits within 0.9 times the target, a candidate
\* matching a start hint is the first piece of the collaborative Program; if
\* no hint matches a fitting candidate, the pieces are in score order.
C13_StartHintOpens ==
    Generated =>
        IF FittingStarts # {}
        THEN /\ fn.pieces # <<>>
             /\ \E hint \in StartHints : InLower(hint, fn.pieces[1].genre)
        ELSE InScoreOrder(fn.pieces)

(***************************************************************************)
(* Properties of the coordinator, continued (SpecDesign)                   *)
(***************************************************************************)
\* phase 4 raised: there was a piece to select and the target is None, so
\* total_duration + piece_duration <= None + 5 raised TypeError
SynthesisRaised ==
    /\ Done
    /\ ~NumericTarget
    /\ \E i \in 1..Len(Agents) : co.evaluation_results[i] # <<>>

\* C14: an exception raised inside phase 4 is caught there and replaced by
\* the one hard-coded placeholder Program (one piece, "Sample Piece 1", a
\* total duration of 30); design_setlist then returns success with that
\* Program and reports no error.
C14_SynthesisFallsBack ==
    SynthesisRaised =>
        /\ co.result[1].success
        /\ Program.design_reasoning = "fallback"
        /\ Program.total_duration = FallbackTotalDuration
        /\ Len(Program.pieces) = 1
        /\ Program.pieces[1].title = "Sample Piece 1"
        /\ Program.pieces[1].composer = "Sample Composer"

\* Phase 4 raised over pieces that the evaluations had scored.
C14_Witness ==
    /\ SynthesisRaised
    /\ Len(ScorePieces(co.evaluation_results)) >= 2
    /\ Program = CreateFallbackSetlist(co.requirements)

(***************************************************************************)
(* Properties of the functions of Part I, continued (SpecFn)               *)
(***************************************************************************)
ListFields ==
    {"favorite_genres", "favorite_composers", "instruments", "avoid_genres",
     "avoid_composers", "specific_genres"}
\* a record with every field of the parser's return value, each of its type
CompleteRecord(preferences) ==
    /\ DOMAIN preferences = DOMAIN DefaultPreferences
    /\ \A field \in ListFields :
          /\ preferences[field] \in Seq(STRING)
          /\ \A k \in 1..Len(preferences[field]) : preferences[field][k] # "None"
    /\ preferences.skill_level \in {"beginner", "intermediate", "advanced", "professional"}
    /\ preferences.tempo_preference \in {"None", "fast", "slow", "moderate"}
    /\ preferences.mood_preference
          \in {"None", "energetic", "relaxed", "romantic", "dramatic", "happy"}
    /\ preferences.start_preference \in STRING
    /\ preferences.end_preference \in STRING

\* C15: for every text, the empty one included, _parse_preference_text
\* returns a complete record and raises nothing; the record is the same
\* whenever the text is the same (the one the sessions store for that text);
\* for the empty text every field is at its default: skill level
\* intermediate, empty lists, tempo, mood and the hints None.
C15_ParseIsTotal ==
    Parsed =>
        /\ CompleteRecord(fn.preferences)
        /\ fn.preferences = ParsePreferenceText(fn.preference_text)
        /\ fn.preference_text = "" => fn.preferences = DefaultPreferences

\* A text that resolves the instrument, the skill level, the tempo and the
\* mood and leaves the other fields at their defaults.
C15_Witness ==
    /\ Parsed
    /\ fn.preference_text # ""
    /\ fn.preferences.skill_level = "advanced"
    /\ fn.preferences.instruments # <<>>
    /\ fn.preferences.favorite_genres = <<>>
    /\ fn.preferences.avoid_genres = <<>>
    /\ fn.preferences.start_preference = "None"

(***************************************************************************)
(* Properties of the coordinator, continued (SpecDesign)                   *)
(***************************************************************************)
Suggested == co.suggestion_results # <<>>

\* C16: suggest_pieces of each of the three agents never raises: when its
\* LLM call fails or raises it returns the agent's built-in fallback list,
\* which is small and not empty.
C16_ProposeNeverRaises ==
    Suggested =>
        \A i \in 1..Len(Agents) :
            /\ co.suggestion_results[i].outcome # "raised"
            /\ co.suggestion_results[i].outcome = "fallback" =>
                  Len(co.suggestion_results[i].pieces) \in 1..3

\* the evaluations captured in phase 3, of all agents
Captured == Concat(co.evaluation_results)
CapturedWith(evaluation) ==
    Cardinality({k \in 1..Len(Captured) : Captured[k].evaluation = evaluation})

\* C17: the confidence design_setlist returns is the arithmetic mean of the
\* confidences of all evaluations captured in phase 3 (total / count, in
\* tenths), it is 0.5 when none was captured, and it lies in [0, 1].
C17_ConfidenceIsMean ==
    Done =>
        LET confidence == co.result[1].confidence IN
        /\ confidence.count >= 1
        /\ 0 <= confidence.total /\ confidence.total <= 10 * confidence.count
        /\ IF Captured = <<>>
           THEN confidence.total = DefaultConfidence * confidence.count
           ELSE /\ confidence.count = Len(Captured)
                /\ confidence.total =
                       ParsedConfidence * CapturedWith(ParseEvaluation)
                     + DefaultConfidence * CapturedWith(DefaultEvaluation)

\* Evaluations of both kinds were captured: the mean is strictly between
\* the default 0.5 and the parsed 0.8.
C17_Witness ==
    /\ Done
    /\ CapturedWith(ParseEvaluation) >= 1
    /\ CapturedWith(DefaultEvaluation) >= 1
    /\ co.result[1].confidence.total > DefaultConfidence * Len(Captured)
    /\ co.result[1].confidence.total < ParsedConfidence * Len(Captured)

(***************************************************************************)
(* Properties of the calls of a design_setlist run (SpecCalls)             *)
(***************************************************************************)
Running == co.phase # "idle"
CallsBefore(k, op) == Cardinality({m \in 1..(k - 1) : co.calls[m].op = op})
AgentIndex(agent) == CHOOSE i \in 1..Len(Agents) : Agents[i] = agent

\* C18: the phases of a run are barriers.  Every suggest_pieces call comes
\* after the analyze_requirements calls of all agents (each ended with a
\* result or a recorded failure) and is given the analyses of all agents, its
\* own and the two others; every evaluate_piece call comes after the
\* suggest_pieces calls of all agents; the synthesis comes after every
\* evaluate_piece call, one per agent and piece.
C18_PhaseBarriers ==
    Running =>
        \A k \in 1..Len(co.calls) :
            LET call == co.calls[k] IN
            /\ call.op = "suggest" =>
                  /\ CallsBefore(k, "analyze") = Len(Agents)
                  /\ call.context.analysis # <<>>
                  /\ DOMAIN call.context.other_analyses
                        = (1..Len(Agents)) \ {AgentIndex(call.agent)}
            /\ call.op = "evaluate" =>
                  /\ CallsBefore(k, "suggest") = Len(Agents)
                  /\ call.suggestions = Len(Agents)
            /\ call.op = "synthesize" =>
                  /\ CallsBefore(k, "evaluate") = Len(Agents) * Len(co.all_pieces)
                  /\ \A i \in 1..Len(Agents) :
                        Len(call.evaluation_results[i]) = Len(co.all_pieces)

\* A run through all four phases in which an analysis failed and was
\* recorded, and pieces were evaluated.
C18_Witness ==
    /\ Done
    /\ \E i \in 1..Len(Agents) : co.analysis_results[i] = "error"
    /\ \E i \in 1..Len(Agents) : co.analysis_results[i] = "ok"
    /\ Len(co.all_pieces) >= 2
    /\ co.calls[Len(co.calls)].op = "synthesize"

EvaluateCalls == {k \in 1..Len(co.calls) : co.calls[k].op = "evaluate"}
\* the entry phase 3 captured for a call
EntryOf(call) == co.evaluation_results[AgentIndex(call.agent)][call.piece]
Succeeded(call) ==
    call.llm_ok /\ EvaluationPromptBuilt(call.agent, co.requirements)

\* C19 as stated: a failed evaluate_piece call removes that agent's
\* contribution for that piece (the agent has no entry for the piece), the
\* other entries are kept, and the run goes on to the synthesis.
C19_FailureRemovesContribution ==
    Done =>
        /\ co.result[1].success
        /\ \A k \in EvaluateCalls :
              LET call == co.calls[k]
                  entries == co.evaluation_results[AgentIndex(call.agent)]
              IN IF Succeeded(call)
                 THEN EntryOf(call).evaluation = ParseEvaluation
                 ELSE \A e \in 1..Len(entries) :
                         entries[e].piece # co.all_pieces[call.piece]

\* C19, amended: a failed evaluate_piece call of one agent on one piece
\* affects only that agent's entry for that piece, which is captured as the
\* default evaluation: the same agent's entries for the other pieces and the
\* entries of the other agents are kept as their own calls returned them,
\* every agent has one entry per piece, and the run goes on to the synthesis
\* and returns.
C19_EvaluateFailureIsolated ==
    Done =>
        /\ co.result[1].success
        /\ \A i \in 1..Len(Agents) :
              Len(co.evaluation_results[i]) = Len(co.all_pieces)
        /\ \A k \in EvaluateCalls :
              LET call == co.calls[k] IN
              /\ EntryOf(call).piece = co.all_pieces[call.piece]
              /\ EntryOf(call).agent = call.agent
              /\ EntryOf(call).evaluation =
                    IF Succeeded(call) THEN ParseEvaluation ELSE DefaultEvaluation

\* One call failed; the same agent's call on another piece and another
\* agent's call on the same piece succeeded and their entries are kept.
C19_Witness ==
    /\ Done
    /\ \E k \in EvaluateCalls, m \in EvaluateCalls, n \in EvaluateCalls :
          /\ ~co.calls[k].llm_ok
          /\ co.calls[m].agent = co.calls[k].agent
          /\ co.calls[m].piece # co.calls[k].piece
          /\ EntryOf(co.calls[m]).evaluation = ParseEvaluation
          /\ co.calls[n].agent # co.calls[k].agent
          /\ co.calls[n].piece = co.calls[k].piece
          /\ EntryOf(co.calls[n]).evaluation = ParseEvaluation

(***************************************************************************)
(* Properties of the scores of the coordinator (SpecDesign)                *)
(***************************************************************************)
\* the evaluation of the piece of a title by agent i
EvaluationBy(i, title) ==
    LET entries == co.evaluation_results[i]
    IN entries[CHOOSE j \in 1..Len(entries) : entries[j].piece.title = title].evaluation
\* position of a title in the entries sorted by average score
RankOf(title) ==
    LET sorted == SortByAverage(co.piece_scores)
    IN CHOOSE k \in 1..Len(sorted) : sorted[k].piece.title = title

\* C20: the score of each deduplicated piece is the arithmetic mean of the
\* scores of the agents (here in sixtieths of a tenth), where an agent whose
\* evaluate_piece call failed counts with the score of the default
\* evaluation; the pieces are taken for the selection in descending order of
\* that score.
C20_AggregateIsMean ==
    (Done /\ co.piece_scores # <<>>) =>
        LET sorted == SortByAverage(co.piece_scores) IN
        /\ \A k \in 1..Len(co.piece_scores) :
              LET entry == co.piece_scores[k]
                  scores == [i \in 1..Len(Agents) |->
                      IF EvaluationBy(i, entry.piece.title) = DefaultEvaluation
                         THEN DefaultConfidence ELSE ParsedConfidence]
              IN entry.average_score * Len(Agents)
                    = 6 * (scores[1] + scores[2] + scores[3])
        /\ Len(sorted) = Len(co.piece_scores)
        /\ \A k \in 1..(Len(sorted) - 1) :
              sorted[k].average_score >= sorted[k + 1].average_score
        /\ \A a, b \in 1..Len(co.selected_pieces) :
              a < b => RankOf(co.selected_pieces[a].title)
                          < RankOf(co.selected_pieces[b].title)

\* Pieces with different means, one of them lowered by a failed call, and
\* the selection takes the better piece first although it was scored later.
C20_Witness ==
    /\ Done
    /\ Len(co.piece_scores) >= 2
    /\ co.piece_scores[1].average_score < co.piece_scores[2].average_score
    /\ \E i \in 1..Len(Agents) :
          EvaluationBy(i, co.piece_scores[1].piece.title) = DefaultEvaluation
    /\ Len(co.selected_pieces) >= 2
    /\ co.selected_pieces[1] = co.piece_scores[2].piece

(***************************************************************************)
(* Properties of the evaluated pieces (SpecDesign)                         *)
(***************************************************************************)
Evaluated == co.phase \in {"evaluation", "done"}
\* the pieces of all suggestions, in the order of the agents
Proposed ==
    Concat([i \in 1..Len(Agents) |-> co.suggestion_results[i].pieces])
\* the pieces phase 3 evaluated, as the first agent's entries list them
EvaluatedPieces ==
    [j \in 1..Len(co.evaluation_results[1]) |-> co.evaluation_results[1][j].piece]
FirstProposed(title) ==
    CHOOSE k \in 1..Len(Proposed) :
        /\ Proposed[k].title = title
        /\ \A m \in 1..(k - 1) : Proposed[m].title # title

\* C21: the pieces evaluated in phase 3 are one piece per distinct proposed
\* title, the first piece of that title in the order of the agents, listed
\* in the order of these first occurrences; every agent evaluates every one
\* of them exactly once.
C21_OnePiecePerTitle ==
    Evaluated =>
        /\ {EvaluatedPieces[j].title : j \in 1..Len(EvaluatedPieces)}
              = {Proposed[k].title : k \in 1..Len(Proposed)}
        /\ \A j \in 1..Len(EvaluatedPieces) :
              /\ EvaluatedPieces[j] = Proposed[FirstProposed(EvaluatedPieces[j].title)]
              /\ \A m \in 1..(j - 1) :
                    FirstProposed(EvaluatedPieces[m].title)
                       < FirstProposed(EvaluatedPieces[j].title)
        /\ \A i \in 1..Len(Agents) :
              /\ Len(co.evaluation_results[i]) = Len(EvaluatedPieces)
              /\ \A j \in 1..Len(EvaluatedPieces) :
                    /\ co.evaluation_results[i][j].piece = EvaluatedPieces[j]
                    /\ co.evaluation_results[i][j].agent = Agents[i]

\* Two agents proposed different pieces under one title, and one agent
\* proposed a title twice: the first piece of the title is evaluated.
C21_Witness ==
    /\ Evaluated
    /\ Len(Proposed) = 4
    /\ Len(EvaluatedPieces) = 2
    /\ \E k \in 1..Len(Proposed) :
          /\ Proposed[k].title = EvaluatedPieces[1].title
          /\ Proposed[k] # EvaluatedPieces[1]

(***************************************************************************)
(* Properties of the ordered pieces (SpecDesign)                           *)
(***************************************************************************)
Ordered == co.phase \in {"selected", "done"}
\* positions of the selected pieces a programme may open with
Easy ==
    {k \in 1..Len(co.selected_pieces) :
        co.selected_pieces[k].difficulty_level \in {"beginner", "intermediate"}}

\* C22: the ordered pieces are the selected pieces with the first piece of
\* difficulty beginner or intermediate moved to the front and all other
\* pieces in their selected order; without such a piece the selected order
\* is returned unchanged.
C22_OpeningMovedToFront ==
    Ordered =>
        IF Easy = {} THEN co.ordered_pieces = co.selected_pieces
        ELSE LET first == Least[Easy]
             IN co.ordered_pieces =
                    <<co.selected_pieces[first]>>
                       \o SubSeq(co.selected_pieces, 1, first - 1)
                       \o SubSeq(co.selected_pieces, first + 1,
                                 Len(co.selected_pieces))

\* The first piece to open with is the third of at least five selected
\* pieces, and a later selected piece could open as well.
C22_Witness ==
    /\ Ordered
    /\ Len(co.selected_pieces) >= 5
    /\ Easy # {}
    /\ Least[Easy] = 3
    /\ Cardinality(Easy) >= 2
    /\ co.ordered_pieces # co.selected_pieces

(***************************************************************************)
(* Properties of the group analysis (SpecFn)                               *)
(***************************************************************************)
\* the participants whose record names the term in the field
NamedBy(term, field) ==
    {i \in 1..Len(Records) : term \in Range(Records[i].preferences[field])}

\* C23: a genre or composer is common exactly when the records of more than
\* one participant name it; several occurrences within one record count
\* once.
C23_CommonAcrossParticipants ==
    Generated =>
        /\ \A term \in Range(ListsOf(Records, "favorite_genres")) :
              term \in Range(fn.group_analysis.common_genres)
                 <=> Cardinality(NamedBy(term, "favorite_genres")) > 1
        /\ \A term \in Range(ListsOf(Records, "favorite_composers")) :
              term \in Range(fn.group_analysis.common_composers)
                 <=> Cardinality(NamedBy(term, "favorite_composers")) > 1

(***************************************************************************)
(* Properties of the candidates' scores (SpecFn)                           *)
(***************************************************************************)
\* the tempo preferences the participants' records state
StatedTempos ==
    {Records[i].preferences.tempo_preference : i \in 1..Len(Records)}
\* the style a tempo preference asks for
StyleOfTempo(tempo) ==
    CASE tempo = "fast" -> "up-tempo"
      [] tempo = "slow" -> "ballad"
      [] tempo = "moderate" -> "medium"
\* the score of a candidate without the point for its style
PreferencePoints(piece) ==
      (IF \E g \in Range(fn.group_analysis.common_genres) : InLower(g, piece.genre)
       THEN 3 ELSE 0)
    + (IF \E c \in Range(fn.group_analysis.common_composers) :
             InLower(c, piece.composer)
       THEN 5 ELSE 0)
    + (IF piece.difficulty \in fn.group_analysis.skill_levels THEN 2 ELSE 0)

\* C24: every candidate left by the avoid filter has 3 points for a common
\* genre, 5 for a common composer, 2 for a difficulty that is some
\* participant's skill level and 1 for a style that matches the tempo the
\* records prefer (where all records state one tempo, that tempo), and the
\* candidates are in descending order of the score.
C24_ScoreFollowsPreferences ==
    Generated =>
        /\ \A k \in 1..Len(fn.filtered) :
              LET piece == fn.filtered[k]
                  style == piece.collaborative_score - PreferencePoints(piece)
              IN /\ style \in {0, 1}
                 /\ \A tempo \in {"fast", "slow", "moderate"} :
                       StatedTempos = {tempo} =>
                          (style = 1 <=> piece.style = StyleOfTempo(tempo))
        /\ \A a, b \in 1..Len(fn.filtered) :
              a < b => fn.filtered[a].collaborative_score
                          >= fn.filtered[b].collaborative_score

(***************************************************************************)
(* Properties of the end hints (SpecFn)                                    *)
(***************************************************************************)
EndHints == fn.group_analysis.end_preferences
\* the candidates an end hint matches and that fit 90% of the target
FittingEnds ==
    {k \in 1..Len(fn.filtered) :
        /\ \E h \in 1..Len(EndHints) : InLower(EndHints[h], fn.filtered[k].genre)
        /\ WithinNinety(fn.filtered[k].duration_minutes, fn.duration_minutes)}

\* C25: when an end hint of some record matches the genre of a candidate
\* that fits 90% of the target duration, such a candidate is the last piece
\* of the programme and is nowhere else in it.
C25_EndHintCloses ==
    (Generated /\ FittingEnds # {}) =>
        /\ fn.pieces # <<>>
        /\ \E k \in FittingEnds :
              /\ fn.pieces[Len(fn.pieces)] = fn.filtered[k]
              /\ \A j \in 1..(Len(fn.pieces) - 1) : fn.pieces[j] # fn.filtered[k]

(***************************************************************************)
(* Properties of negated terms (SpecFn)                                    *)
(***************************************************************************)
\* a negative word is within ContextWindow characters of the term
Negated(term, text) ==
    In(term, text) /\ AnyIn(negative_words, Context(term, text))

\* C26: a genre or composer that the text mentions with a negative word
\* within the window around it is in the avoid list of its kind and is not
\* in the favourite list of the record.
C26_NegatedTermIsAvoidedOnly ==
    Parsed =>
        LET Holds[text \in STRING] ==
                /\ \A k \in 1..Len(composer_names) :
                      Negated(composer_names[k], text) =>
                         /\ \E a \in Range(fn.preferences.avoid_composers) :
                               Lower(a) = composer_names[k]
                         /\ composer_names[k]
                               \notin Range(fn.preferences.favorite_composers)
                /\ \A k \in 1..Len(GenreKeywords) :
                      (\E w \in Range(GenreKeywords[k][2]) : Negated(w, text)) =>
                         /\ GenreKeywords[k][1] \in Range(fn.preferences.avoid_genres)
                         /\ GenreKeywords[k][1]
                               \notin Range(fn.preferences.favorite_genres)
        IN  Holds[Lower(fn.preference_text)]

(***************************************************************************)
(* Properties of the attached setlist (Spec)                               *)
(***************************************************************************)
Attached(s) == active_requests[s].setlist_data # <<>>
\* every member of the session has responded and the synthesis raised
SynthesisFailed(s) ==
    /\ synth_runs[s] > 0
    /\ RemainingUsers(active_requests[s]) = {}
    /\ ~Completed(s)

\* C27: a session has setlist data attached exactly when its status is
\* completed, and get_setlist_status returns setlist data exactly for a
\* completed session: never for one that is collecting or whose synthesis
\* failed.
C27_AttachedIffCompleted ==
    /\ \A s \in Sessions : Attached(s) <=> Completed(s)
    /\ (last.op = "status" /\ last.action = "status") =>
          /\ last.view[1].setlist_data # <<>>
                <=> last.view[1].request_status = "completed"
          /\ last.view[1].request_status = active_requests[last.sid].status

\* get_setlist_status returned the setlist data of a completed session
\* while another session, whose synthesis failed, has none.
C27_Witness ==
    /\ last.op = "status" /\ last.action = "status"
    /\ Completed(last.sid)
    /\ last.view[1].setlist_data # <<>>
    /\ \E s \in Sessions : SynthesisFailed(s) /\ ~Attached(s)

(***************************************************************************)
(* Properties of the selected catalog pieces (SpecFn)                      *)
(***************************************************************************)
\* C28: the pieces selected for a duration hold no catalog piece at two
\* positions, whatever the start hints and the end hints.
C28_NoPieceTwice ==
    Generated =>
        \A a, b \in 1..Len(fn.pieces) :
            a < b => fn.pieces[a].title # fn.pieces[b].title

(***************************************************************************)
(* Properties of the reported duration (SpecDesign)                        *)
(***************************************************************************)
\* C29: the total_duration of every Program design_setlist returns, the
\* synthesized one and the fallback one alike, is the sum of the durations
\* of its pieces.
C29_TotalIsSumOfPieces ==
    Done => Program.total_duration = SumDurations(Program.pieces)

(***************************************************************************)
(* Properties of the order of arrival (SpecFn)                             *)
(***************************************************************************)
\* the orders in which the submissions of fn.texts can arrive
Arrivals ==
    {order \in [1..Len(fn.texts) -> 1..Len(fn.texts)] :
        \A a, b \in 1..Len(fn.texts) : a # b => order[a] # order[b]}
\* the pieces generated when the submissions arrive in the given order
ProgramOf(order) ==
    GenerateSetlistPieces(
        AnalyzeGroupPreferences(
            FnResponses([k \in 1..Len(fn.texts) |-> fn.texts[order[k]]])),
        fn.duration_minutes, fn.concert_type).pieces

\* C30: for a fixed request and fixed submissions, the pieces generated and
\* their order are the same for every order in which the submissions
\* arrive.
C30_ArrivalOrderIrrelevant ==
    Generated => \A order \in Arrivals : ProgramOf(order) = fn.pieces

=============================================================================
